---------------------------- MODULE Spec2Model ----------------------------
(***************************************************************************)
(* A model of seguro's event fragmentation codec (src/src/event.c) and of  *)
(* its FoundationDB write/read engine (src/src/fdb.c).                     *)
(*                                                                         *)
(* Bytes are integers 0..255.  An event buffer is a sequence of bytes, a   *)
(* pointer into it an offset.  The machine is little-endian, as the code   *)
(* assumes when it copies the low bytes of a uint32_t with memcpy.         *)
(***************************************************************************)
EXTENDS Integers, Sequences, FiniteSets, TLC

VARIABLES
  hb,       \* codec harness: the last build_header call, [n, header, header_length]
  hr,       \* codec harness: the last read_header call,  [num_fragments, header_length]
  fe,       \* codec harness: the last fragment_event call, [event, f_event]
  kc,       \* codec harness: the last two fdb_build_event_key calls and their keys
  store,           \* the FoundationDB cluster: its key-value pairs in key order
  fdb_batch_size,  \* fdb.c: uint32_t fdb_batch_size
  pc,              \* where the caller thread is: "idle" or inside one fdb_* call
  wr,              \* locals of the running write call
  rd,              \* locals of the running fdb_read_event call
  log,             \* the calls made so far, the running or last one at the end
  workload,        \* which family of inputs this run of the caller draws from
  aw,              \* locals of the running fdb_timed_write_event_array_async call
  net              \* the commits issued by the running call and their futures

codec_vars == <<hb, hr, fe, kc>>
db_vars == <<store, fdb_batch_size, pc, wr, rd, log, workload, aw, net>>
vars == <<hb, hr, fe, kc, store, fdb_batch_size, pc, wr, rd, log, workload, aw, net>>

(***************************************************************************)
(* Program constants                                                       *)
(***************************************************************************)
\* event.h: #define EXTENDED_HEADER 0x80
EXTENDED_HEADER == 128
\* event.h: #define MAX_HEADER_SIZE 4
MAX_HEADER_SIZE == 4
\* The size of every fragment after the first (fdb_constants.h; 10000 in the
\* program).  The model scales it down; nothing below depends on its value
\* beyond OPTIMAL_VALUE_SIZE < 2^16 (payload_length is a uint16_t).
OPTIMAL_VALUE_SIZE == 3

(***************************************************************************)
(* Bounds of the model                                                     *)
(***************************************************************************)
\* build_header is applied to every count 0..MaxHeaderCount and to the
\* boundary counts of HeaderBoundary.
MaxHeaderCount == 300
\* fragment_event is applied to every data_length 0..MaxCodecLength and to the
\* lengths of BigLengths.
MaxCodecLength == 40
\* The caller makes at most MaxCalls calls of the fdb_* interface in one run.
MaxCalls == 3
\* The store refuses at most MaxFaults requests in one run.
MaxFaults == 1
\* The store returns a range whole, or cut after 1..MaxPageCut pairs.
MaxPageCut == 2
\* Of a malloc'ed buffer the model keeps the first BufferWindow bytes: more
\* than any stored event of a run has.
BufferWindow == 1024

(***************************************************************************)
(* Arithmetic helpers                                                      *)
(***************************************************************************)
Min(S) == CHOOSE x \in S : \A y \in S : x <= y

\* uint32_t arithmetic wraps.  TLC's integers are 32-bit signed, so the model
\* wraps at 2^30 instead of 2^32: every sum of two values stays below 2^31.
\* A uint64_t (an event id, a data_length) is an integer below 2^30 as well.
UINT32_MODULUS == 2 ^ 30
Add32(a, b) == (a + b) % UINT32_MODULUS
Sub32(a, b) == (a - b) % UINT32_MODULUS
\* a * b for b < 2^15, the product formed in two halves that stay below 2^31
Mul32(a, b) ==
  LET ah == (a % UINT32_MODULUS) \div 32768
      al == (a % UINT32_MODULUS) % 32768
  IN  ((((ah * b) % 32768) * 32768) + (al * b)) % UINT32_MODULUS

\* ((uint8_t *)&n)[k] on a little-endian machine; the bytes from the fifth on
\* of a value below 2^30 are zero
ByteOf(n, k) == IF k > 3 THEN 0 ELSE (n \div (256 ^ k)) % 256

\* memcpy(dst, &n, len): the len low-order bytes of n, lowest first
LowBytes(n, len) == [k \in 1..len |-> ByteOf(n, k - 1)]

\* the uint32_t whose first Len(bytes) bytes are `bytes` and whose remaining
\* bytes are those of prev (memcpy of Len(bytes) <= 4 bytes over prev), taken
\* modulo UINT32_MODULUS: the two high bits of the fourth byte are dropped
OverlayBytes(prev, bytes) ==
  LET B(k) == IF k <= Len(bytes) THEN bytes[k] ELSE ByteOf(prev, k - 1)
  IN  B(1) + 256 * B(2) + 65536 * B(3) + 16777216 * (B(4) % 64)

\* The byte of event data at offset k (0-based) of the buffer filled from seed.
DataByte(seed, k) == (seed + 37 * k) % 256
EventData(seed, len) == [k \in 1..len |-> DataByte(seed, k - 1)]

(***************************************************************************)
(* event.c: build_header                                                   *)
(***************************************************************************)
build_header_big_endian(num_fragments) ==
  IF num_fragments < 128
    THEN [header |-> <<ByteOf(num_fragments, 0)>>, header_length |-> 1]
    ELSE LET fits == {i \in 1..(MAX_HEADER_SIZE - 2) : num_fragments < 2 ^ (i * 8)}
             i == IF fits # {} THEN Min(fits) ELSE MAX_HEADER_SIZE - 1
         IN  [header |-> <<EXTENDED_HEADER + i>>
                          \o [k \in 1..i |-> ByteOf(num_fragments, i - k)],
              header_length |-> i + 1]

\* build_header(header, num_fragments): the bytes written to header[] and the
\* returned length.  The for loop returns at the first i in 1..MAX_HEADER_SIZE-2
\* with num_fragments < 1 << (i*8); past it the code writes three bytes whatever
\* the count ("Technically this is wrong if num_fragments >= 2^24").
build_header(num_fragments) ==
  IF num_fragments < 128
    THEN [header |-> <<ByteOf(num_fragments, 0)>>, header_length |-> 1]
    ELSE LET fits == {i \in 1..(MAX_HEADER_SIZE - 2) : num_fragments < 2 ^ (i * 8)}
         IN  IF fits # {}
               THEN LET i == Min(fits)
                    IN  [header |-> <<EXTENDED_HEADER + i>> \o LowBytes(num_fragments, i),
                         header_length |-> i + 1]
               ELSE [header |-> <<EXTENDED_HEADER + (MAX_HEADER_SIZE - 1)>>
                                 \o LowBytes(num_fragments, MAX_HEADER_SIZE - 1),
                     header_length |-> MAX_HEADER_SIZE]

(***************************************************************************)
(* event.c: read_header                                                    *)
(***************************************************************************)
\* header[k] for the 0-based k; a byte past the end of the value read is
\* whatever lies there in memory (junk).
HeaderByte(header, k, junk) == IF k < Len(header) THEN header[k + 1] ELSE junk

\* read_header(header, &num_fragments) where *num_fragments holds prev on
\* entry: the extended form copies header_bytes bytes over the low bytes of
\* *num_fragments and leaves the others as they were.  header_bytes > 4 writes
\* past the uint32_t (overrun); the count is then what its four bytes hold.
\* copied is the number of bytes the memcpy reads from header + 1.
read_header(header, prev, junk) ==
  IF HeaderByte(header, 0, junk) >= EXTENDED_HEADER
    THEN LET header_bytes == HeaderByte(header, 0, junk) - EXTENDED_HEADER
             n == IF header_bytes < 4 THEN header_bytes ELSE 4
             copied == [k \in 1..n |-> HeaderByte(header, k, junk)]
         IN  [num_fragments |-> OverlayBytes(prev, copied),
              header_length |-> header_bytes + 1,
              overrun |-> header_bytes > 4,
              copied |-> header_bytes]
    ELSE [num_fragments |-> HeaderByte(header, 0, junk), header_length |-> 1,
          overrun |-> FALSE, copied |-> 0]

(***************************************************************************)
(* event.c: fragment_event                                                 *)
(***************************************************************************)
\* An Event: id, data_length and the data buffer.
Event(id, seed, len) == [id |-> id, data_length |-> len, data |-> EventData(seed, len)]

fragment_event_remainder_last(event) ==
  LET q == event.data_length \div OPTIMAL_VALUE_SIZE
      r == event.data_length % OPTIMAL_VALUE_SIZE
      num_fragments == IF r = 0 THEN q ELSE q + 1
      payload_length == OPTIMAL_VALUE_SIZE
      h == build_header(Sub32(num_fragments, 1))
  IN  [id |-> event.id, num_fragments |-> num_fragments,
       header |-> h.header, header_length |-> h.header_length,
       payload_length |-> payload_length,
       fragments |-> [k \in 1..num_fragments |-> (k - 1) * OPTIMAL_VALUE_SIZE],
       data |-> event.data]

fragment_event_skewed_offsets(event) ==
  LET q == event.data_length \div OPTIMAL_VALUE_SIZE
      r == event.data_length % OPTIMAL_VALUE_SIZE
      payload_length == IF r = 0 THEN OPTIMAL_VALUE_SIZE ELSE r
      num_fragments == IF r = 0 THEN q ELSE q + 1
      h == build_header(Sub32(num_fragments, 1))
  IN  [id |-> event.id, num_fragments |-> num_fragments,
       header |-> h.header, header_length |-> h.header_length,
       payload_length |-> payload_length,
       fragments |-> [k \in 1..num_fragments |->
                        IF k = 1 THEN 0
                        ELSE payload_length + (k - 1) * OPTIMAL_VALUE_SIZE],
       data |-> event.data]

\* fragment_event(event, f_event): the FragmentedEvent it sets up.  fragments
\* holds each pointer as its offset into event->data (fragments[k] here is
\* fragments[k-1] of the code); data is the buffer the pointers alias.
fragment_event(event) ==
  LET q == event.data_length \div OPTIMAL_VALUE_SIZE
      r == event.data_length % OPTIMAL_VALUE_SIZE
      payload_length == IF r = 0 THEN OPTIMAL_VALUE_SIZE ELSE r
      num_fragments == IF r = 0 THEN q ELSE q + 1
      h == build_header(Sub32(num_fragments, 1))
  IN  [id |-> event.id, num_fragments |-> num_fragments,
       header |-> h.header, header_length |-> h.header_length,
       payload_length |-> payload_length,
       fragments |-> [k \in 1..num_fragments |->
                        IF k = 1 THEN 0
                        ELSE payload_length + ((k - 1) - 1) * OPTIMAL_VALUE_SIZE],
       data |-> event.data]

\* The bytes a fragment view stands for, as add_event_set_transactions reads
\* them: payload_length bytes from fragments[0], OPTIMAL_VALUE_SIZE bytes from
\* every other fragments[i] (i is 0-based).
FragmentLength(f_event, i) ==
  IF i = 0 THEN f_event.payload_length ELSE OPTIMAL_VALUE_SIZE


(***************************************************************************)
(* fdb.c: keys                                                             *)
(***************************************************************************)
\* fdb.h: #define FDB_KEY_EVENT_LENGTH 8
FDB_KEY_EVENT_LENGTH == 8
\* fdb.h: #define FDB_KEY_FRAGMENT_LENGTH 4
FDB_KEY_FRAGMENT_LENGTH == 4
\* fdb.h: #define FDB_KEY_TOTAL_LENGTH (1 + FDB_KEY_EVENT_LENGTH + FDB_KEY_FRAGMENT_LENGTH)
FDB_KEY_TOTAL_LENGTH == 1 + FDB_KEY_EVENT_LENGTH + FDB_KEY_FRAGMENT_LENGTH

\* The len low-order bytes of n, highest first.
BigEndian(n, len) == [k \in 1..len |-> ByteOf(n, len - k)]

fdb_build_event_key_little_endian(key, fragment) ==
  <<0>> \o LowBytes(key, FDB_KEY_EVENT_LENGTH) \o LowBytes(fragment, FDB_KEY_FRAGMENT_LENGTH)

\* fdb_build_event_key(fdb_key, key, fragment): the bytes written to fdb_key.
\* fdb_key[0] is 0, fdb_key[FDB_KEY_EVENT_LENGTH - i] is byte i of key and
\* fdb_key[FDB_KEY_TOTAL_LENGTH - (i + 1)] byte i of fragment.
fdb_build_event_key(key, fragment) ==
  <<0>> \o BigEndian(key, FDB_KEY_EVENT_LENGTH) \o BigEndian(fragment, FDB_KEY_FRAGMENT_LENGTH)

\* FoundationDB orders keys bytewise, a proper prefix before its extensions.
KeyLess(a, b) ==
  LET m == IF Len(a) < Len(b) THEN Len(a) ELSE Len(b)
      d == {p \in 1..m : a[p] # b[p]}
  IN  IF d = {} THEN Len(a) < Len(b) ELSE a[Min(d)] < b[Min(d)]

KeyLessEq(a, b) == a = b \/ KeyLess(a, b)

(***************************************************************************)
(* The storage engine, as the code uses it                                  *)
(***************************************************************************)
\* The store is the sequence of its key-value pairs in key order.
EmptyStore == <<>>
StoreKeys(db) == {db[j].key : j \in 1..Len(db)}
Lookup(db, key) == db[CHOOSE j \in 1..Len(db) : db[j].key = key].value

\* A transaction is the sequence of its operations, in the order added:
\* [op |-> "set", key, value] or [op |-> "clear_range", key, end].
SetOp(key, value) == [op |-> "set", key |-> key, value |-> value, end |-> <<>>]

ApplyOp_set_appends(db, o) ==
  IF o.op = "set"
    THEN LET lt == Cardinality({j \in 1..Len(db) : KeyLess(db[j].key, o.key)})
             present == lt < Len(db) /\ db[lt + 1].key = o.key
             value == IF present THEN db[lt + 1].value \o o.value ELSE o.value
         IN  SubSeq(db, 1, lt) \o <<[key |-> o.key, value |-> value]>>
               \o SubSeq(db, IF present THEN lt + 2 ELSE lt + 1, Len(db))
    ELSE SelectSeq(db, LAMBDA kv : ~(KeyLessEq(o.key, kv.key) /\ KeyLess(kv.key, o.end)))

\* The store after operation o.
ApplyOp(db, o) ==
  IF o.op = "set"
    THEN LET lt == Cardinality({j \in 1..Len(db) : KeyLess(db[j].key, o.key)})
             present == lt < Len(db) /\ db[lt + 1].key = o.key
         IN  SubSeq(db, 1, lt) \o <<[key |-> o.key, value |-> o.value]>>
               \o SubSeq(db, IF present THEN lt + 2 ELSE lt + 1, Len(db))
    ELSE SelectSeq(db, LAMBDA kv : ~(KeyLessEq(o.key, kv.key) /\ KeyLess(kv.key, o.end)))

\* The store after a committed transaction: its operations applied in order.
RECURSIVE ApplyFrom(_, _, _)
ApplyFrom(db, tx, j) ==
  IF j > Len(tx)
    THEN db
    ELSE LET next == ApplyOp(db, tx[j])
         IN  IF Len(next) >= 0 THEN ApplyFrom(next, tx, j + 1) ELSE next
ApplyTx(db, tx) == ApplyFrom(db, tx, 1)

\* fdb_transaction_get_range(tx, begin, 1, offset, end, 0, 1, ...): the key
\* selectors (begin, or_equal = 1, offset) and FIRST_GREATER_OR_EQUAL(end)
\* resolved over the stored keys, and the key-value pairs from the first to
\* before the second, in key order.  (begin, 1, offset) is the key `offset`
\* places after the last key <= begin; before the first key it resolves to the
\* start of the keyspace.
GetRange(db, begin, offset, end) ==
  LET le == Cardinality({j \in 1..Len(db) : KeyLessEq(db[j].key, begin)})
      first == IF le + offset < 1 THEN 1 ELSE le + offset
      lt == Cardinality({j \in 1..Len(db) : KeyLess(db[j].key, end)})
  IN  SubSeq(db, first, lt)

(***************************************************************************)
(* fdb.c: add_event_set_transactions                                       *)
(***************************************************************************)
\* len bytes of the event buffer from offset off; a byte past the end of the
\* buffer is whatever lies there in memory (junk).
ReadData(data, off, len, junk) ==
  IF off + len <= Len(data)
    THEN SubSeq(data, off + 1, off + len)
    ELSE [k \in 1..len |-> IF off + k <= Len(data) THEN data[off + k] ELSE junk]

\* fragments[i] of the code; past the array (a FragmentedEvent of zero
\* fragments) the pointer fragment_event stored at fragments[0]: the buffer.
FragmentOffset(event, i) ==
  IF i + 1 <= Len(event.fragments) THEN event.fragments[i + 1] ELSE 0

\* The value written for fragment 0: header ++ payload.
FirstValue(event, junk) ==
  SubSeq(event.header, 1, event.header_length)
    \o ReadData(event.data, FragmentOffset(event, 0), event.payload_length, junk)

FragmentValue(event, i, junk) ==
  ReadData(event.data, FragmentOffset(event, i), OPTIMAL_VALUE_SIZE, junk)

add_event_set_transactions_header_everywhere(tx, event, start_pos, limit, junk) ==
  LET max_pos == Add32(start_pos, limit)
      end_pos == IF max_pos < event.num_fragments THEN max_pos ELSE event.num_fragments
      num_kvp == Sub32(end_pos, start_pos)
      rest == [j \in 1..(IF end_pos > start_pos THEN end_pos - start_pos ELSE 0) |->
                 SetOp(fdb_build_event_key(event.id, start_pos + j - 1),
                       SubSeq(event.header, 1, event.header_length)
                         \o FragmentValue(event, start_pos + j - 1, junk))]
  IN  [tx |-> tx \o rest, num_kvp |-> num_kvp]

\* add_event_set_transactions(tx, event, start_pos, limit): the transaction
\* with the set operations added, and the returned num_kvp.  The first
\* fragment is added whenever start_pos is 0, whatever end_pos is.
add_event_set_transactions(tx, event, start_pos, limit, junk) ==
  LET max_pos == Add32(start_pos, limit)
      end_pos == IF max_pos < event.num_fragments THEN max_pos ELSE event.num_fragments
      num_kvp == Sub32(end_pos, start_pos)
      first == IF start_pos = 0
                 THEN <<SetOp(fdb_build_event_key(event.id, 0), FirstValue(event, junk))>>
                 ELSE <<>>
      from == IF start_pos = 0 THEN 1 ELSE start_pos
      rest == [j \in 1..(IF end_pos > from THEN end_pos - from ELSE 0) |->
                 SetOp(fdb_build_event_key(event.id, from + j - 1),
                       FragmentValue(event, from + j - 1, junk))]
  IN  [tx |-> tx \o first \o rest, num_kvp |-> num_kvp]

(***************************************************************************)
(* The caller thread and the fdb_* calls                                    *)
(***************************************************************************)
NoEvent == [id |-> 0, data_length |-> 0, data |-> <<>>]

\* Every event's bytes are EventData(DataSeed, data_length).
DataSeed == 7

\* The codec harness (below) before its call is made.
NoHeader == [n |-> -1, header |-> <<>>, header_length |-> 0]
NoRead == [num_fragments |-> -1, header_length |-> 0, copied |-> 0]
NoFragmentedEvent ==
  [id |-> 0, num_fragments |-> 0, header |-> <<>>, header_length |-> 0,
   payload_length |-> 0, fragments |-> <<>>, data |-> <<>>]
NoFragmentation == [called |-> FALSE, event |-> NoEvent, f_event |-> NoFragmentedEvent]
NoKeys == [called |-> FALSE, a |-> 0, i |-> 0, b |-> 0, j |-> 0,
           key_a |-> <<>>, key_b |-> <<>>]

CodecIdle ==
  /\ hb = NoHeader
  /\ hr = NoRead
  /\ fe = NoFragmentation
  /\ kc = NoKeys


NoWr == [events |-> <<>>, i |-> 0, frag_pos |-> 0, batch_filled |-> 0,
         tx |-> <<>>, junk |-> 0]
NoRd == [id |-> 0, out_counted |-> 0, num_fragments |-> 0, payload_length |-> 0,
         data_length |-> 0, data |-> <<>>, allocated |-> FALSE,
         kv |-> <<>>, out_more |-> FALSE, i |-> 0]

\* fdb_timed_write_event_array_async: i, b, batch_filled, frag_pos,
\* num_batches and txs_processing; txs[] as the operations added to each
\* transaction and whether it is open, being committed or destroyed; final
\* tells the commit after the loop from the commits inside it; cb and loaded
\* are the future and the value read by a callback that runs in this thread.
NoAw == [events |-> <<>>, i |-> 0, b |-> 0, batch_filled |-> 0, frag_pos |-> 0,
         num_batches |-> 0, txs_processing |-> 0, txs |-> <<>>, final |-> FALSE,
         cb |-> 0, loaded |-> 0]
\* The futures of the commits the running call issued, in the order issued,
\* and the callback the network thread is running (0 for none) with the
\* value of the counter it read.
NoNet == [futures |-> <<>>, running |-> 0, loaded |-> 0]

\* A byte of malloc'ed memory that was never written.
Indeterminate == -1

DbInit ==
  /\ store = EmptyStore
  /\ fdb_batch_size = 1
  /\ pc = "idle"
  /\ wr = NoWr
  /\ rd = NoRd
  /\ log = <<>>
  /\ workload = "none"
  /\ aw = NoAw
  /\ net = NoNet

\* The record of a call as it is entered: its arguments, the store it found.
\* ret is "running", then "ok" (return 0) or "fail" (return -1), or "undefined"
\* when the call ran into undefined behaviour.  commits lists the keys set by
\* each transaction the call committed, pages counts the range reads answered
\* and cut tells whether one of them was answered with a part of the range,
\* out is the Event fdb_read_event filled in, pos and pos_out the caller's
\* *pos before and after, batch_size the fdb_batch_size the call ran under,
\* fault the request the store refused ("setup", "commit", "range") if any.
\* transactions and futures count the FDBTransaction and FDBFuture objects
\* the call created and has not destroyed, allocs and frees its malloc and
\* free calls on event->data.
Call(op, events, id, pos) ==
  [op |-> op, events |-> events, id |-> id, pos |-> pos, ret |-> "running",
   pre |-> store, batch_size |-> fdb_batch_size, commits |-> <<>>, pages |-> 0,
   cut |-> FALSE, out |-> NoEvent, pos_out |-> pos, fault |-> "none",
   transactions |-> 0, futures |-> 0, allocs |-> 0, frees |-> 0]

Cur == log[Len(log)]
Returned(l, ret) == [l EXCEPT ![Len(l)].ret = ret]
Failed(l, fault) == [l EXCEPT ![Len(l)].ret = "fail", ![Len(l)].fault = fault]
Committed(l, tx) ==
  [l EXCEPT ![Len(l)].commits = Append(@, [j \in 1..Len(tx) |-> tx[j].key])]

\* fdb_setup_transaction succeeded: the call holds a transaction
Entered(op, events, id, pos) == [Call(op, events, id, pos) EXCEPT !.transactions = 1]
\* fdb_transaction_destroy(tx)
TxDestroyed(l) == [l EXCEPT ![Len(l)].transactions = 0]
\* fdb_send_transaction returns -1 at tx_fail: the future of the commit is
\* not destroyed
CommitFailed(l) == [Failed(l, "commit") EXCEPT ![Len(l)].futures = @ + 1]
\* fdb_read_event's tx_fail: fdb_future_destroy(future),
\* fdb_transaction_destroy(tx), free(event->data)
ReadFailed(l) ==
  [l EXCEPT ![Len(l)].futures = 0, ![Len(l)].transactions = 0,
            ![Len(l)].frees = @ + 1]

\* A run of the "retry" workload makes one call more: an earlier write, the
\* write that fails, its repetition and the read.
CallLimit == IF workload = "retry" THEN MaxCalls + 1 ELSE MaxCalls

CanCall == pc = "idle" /\ Len(log) < CallLimit

SetBatchSize_accepts_zero(batch_size) ==
  /\ CanCall
  /\ \A j \in 1..Len(log) : log[j].op = "set_batch_size"
  /\ log' = Returned(Append(log, Call("set_batch_size", <<>>, 0, batch_size)), "ok")
  /\ fdb_batch_size' = batch_size
  /\ UNCHANGED <<store, pc, wr, rd, workload, codec_vars, aw, net>>

\* fdb_set_batch_size(batch_size), called as the tests and the benchmark do:
\* before the calls that use the store
SetBatchSize(batch_size) ==
  /\ CanCall
  /\ \A j \in 1..Len(log) : log[j].op = "set_batch_size"
  /\ IF batch_size = 0
       THEN /\ log' = Returned(Append(log, Call("set_batch_size", <<>>, 0, batch_size)), "fail")
            /\ UNCHANGED fdb_batch_size
       ELSE /\ log' = Returned(Append(log, Call("set_batch_size", <<>>, 0, batch_size)), "ok")
            /\ fdb_batch_size' = batch_size
  /\ UNCHANGED <<store, pc, wr, rd, workload, codec_vars, aw, net>>

\* The runs of every workload but "events", "arrays", "big" and "raw" are those where the store
\* may refuse to create a transaction, to commit one or to answer a range
\* read, at most MaxFaults times in a run.
Faults ==
  /\ workload \in {"faults", "batches", "retry", "clears", "sync", "async"}
  /\ Cardinality({j \in 1..Len(log) : log[j].fault # "none"}) < MaxFaults

\* A call whose fdb_setup_transaction fails returns -1 at once.
SetupFails(op, events, id, pos) ==
  /\ CanCall
  /\ Faults
  /\ log' = Failed(Append(log, Call(op, events, id, pos)), "setup")
  /\ UNCHANGED <<store, fdb_batch_size, pc, wr, rd, workload, codec_vars, aw, net>>

\* fdb_write_event(event): entry, fdb_setup_transaction succeeded
CallWriteEvent(event, junk) ==
  /\ CanCall
  /\ pc' = "write_event"
  /\ wr' = [NoWr EXCEPT !.events = <<event>>, !.junk = junk]
  /\ log' = Append(log, Entered("write_event", <<event>>, event.id, 0))
  /\ UNCHANGED <<store, fdb_batch_size, rd, workload, codec_vars, aw, net>>

\* fdb_write_event: one turn of `while (i < event->num_fragments)`, its commit
\* succeeding; or the loop's end and return 0
WriteEventStep ==
  /\ pc = "write_event"
  /\ LET event == wr.events[1]
     IN  IF wr.i < event.num_fragments
           THEN LET a == add_event_set_transactions(wr.tx, event, wr.i, fdb_batch_size, wr.junk)
                IN  /\ store' = ApplyTx(store, a.tx)
                    /\ wr' = [wr EXCEPT !.i = Add32(wr.i, a.num_kvp), !.tx = <<>>]
                    /\ log' = Committed(log, a.tx)
                    /\ UNCHANGED pc
           ELSE /\ pc' = "idle"
                /\ wr' = NoWr
                /\ log' = Returned(TxDestroyed(log), "ok")
                /\ UNCHANGED store
  /\ UNCHANGED <<fdb_batch_size, rd, workload, codec_vars, aw, net>>

\* fdb_write_event: one turn of the loop whose fdb_send_transaction fails:
\* nothing of the transaction is stored, goto tx_fail, return -1
WriteEventCommitFails ==
  /\ pc = "write_event"
  /\ Faults
  /\ wr.i < wr.events[1].num_fragments
  /\ pc' = "idle"
  /\ wr' = NoWr
  /\ log' = CommitFailed(log)
  /\ UNCHANGED <<store, fdb_batch_size, rd, workload, codec_vars, aw, net>>

\* fdb_write_batch(event, pos), fdb_setup_transaction and the commit
\* succeeding: one transaction, then *pos += num_out
WriteBatch(event, pos, junk) ==
  /\ CanCall
  /\ LET a == add_event_set_transactions(<<>>, event, pos, fdb_batch_size, junk)
         call == Call("write_batch", <<event>>, event.id, pos)
     IN  /\ store' = ApplyTx(store, a.tx)
         /\ log' = Returned(Committed(Append(log,
                     [call EXCEPT !.pos_out = Add32(pos, a.num_kvp)]), a.tx), "ok")
  /\ UNCHANGED <<fdb_batch_size, pc, wr, rd, workload, codec_vars, aw, net>>

\* fdb_write_batch whose fdb_send_transaction fails: return -1, *pos untouched
WriteBatchCommitFails(event, pos) ==
  /\ CanCall
  /\ Faults
  /\ log' = CommitFailed(Append(log, Entered("write_batch", <<event>>, event.id, pos)))
  /\ UNCHANGED <<store, fdb_batch_size, pc, wr, rd, workload, codec_vars, aw, net>>

(***************************************************************************)
(* fdb.c: fdb_write_event_array                                             *)
(***************************************************************************)
\* fdb_write_event_array(events, num_events): entry, fdb_setup_transaction
\* succeeded
CallWriteEventArray(events, junk) ==
  /\ CanCall
  /\ pc' = "write_event_array"
  /\ wr' = [NoWr EXCEPT !.events = events, !.junk = junk]
  /\ log' = Append(log, Entered("write_event_array", events, 0, 0))
  /\ UNCHANGED <<store, fdb_batch_size, rd, workload, codec_vars, aw, net>>

\* One turn of `while (i < num_events)` up to its commit: the frame after the
\* fragments were added and the event counter moved, and whether the batch is
\* full (send).
ArrayTurn(w, batch_size) ==
  LET event == w.events[w.i + 1]
      limit == IF w.batch_filled = 0 THEN batch_size ELSE Sub32(batch_size, w.batch_filled)
      a == add_event_set_transactions(w.tx, event, w.frag_pos, limit, w.junk)
      batch_filled == IF w.batch_filled = 0 THEN a.num_kvp
                      ELSE Add32(w.batch_filled, a.num_kvp)
      frag_pos == Add32(w.frag_pos, a.num_kvp)
      done == frag_pos = event.num_fragments
  IN  [frame |-> [w EXCEPT !.tx = a.tx, !.batch_filled = batch_filled,
                           !.frag_pos = IF done THEN 0 ELSE frag_pos,
                           !.i = IF done THEN Add32(w.i, 1) ELSE w.i],
       send |-> batch_filled = batch_size]

\* fdb_write_event_array: one turn of the loop, its commit (if the batch is
\* full) succeeding; or, the loop over, the final commit and return 0
WriteEventArrayStep ==
  /\ pc = "write_event_array"
  /\ IF wr.i < Len(wr.events)
       THEN LET t == ArrayTurn(wr, fdb_batch_size)
            IN  IF t.send
                  THEN /\ store' = ApplyTx(store, t.frame.tx)
                       /\ wr' = [t.frame EXCEPT !.tx = <<>>, !.batch_filled = 0]
                       /\ log' = Committed(log, t.frame.tx)
                       /\ UNCHANGED pc
                  ELSE /\ wr' = t.frame
                       /\ UNCHANGED <<store, log, pc>>
       ELSE /\ store' = ApplyTx(store, wr.tx)
            /\ log' = Returned(TxDestroyed(Committed(log, wr.tx)), "ok")
            /\ wr' = NoWr
            /\ pc' = "idle"
  /\ UNCHANGED <<fdb_batch_size, rd, workload, codec_vars, aw, net>>

WriteEventArrayCommitFails_stores_batch ==
  /\ pc = "write_event_array"
  /\ Faults
  /\ wr.i < Len(wr.events) => ArrayTurn(wr, fdb_batch_size).send
  /\ store' = ApplyTx(store, IF wr.i < Len(wr.events)
                               THEN ArrayTurn(wr, fdb_batch_size).frame.tx ELSE wr.tx)
  /\ pc' = "idle"
  /\ wr' = NoWr
  /\ log' = CommitFailed(log)
  /\ UNCHANGED <<fdb_batch_size, rd, workload, codec_vars, aw, net>>

WriteEventArrayCommitFails_keeps_going ==
  /\ pc = "write_event_array"
  /\ Faults
  /\ wr.i < Len(wr.events)
  /\ ArrayTurn(wr, fdb_batch_size).send
  /\ wr' = [ArrayTurn(wr, fdb_batch_size).frame EXCEPT !.tx = <<>>, !.batch_filled = 0]
  /\ log' = [log EXCEPT ![Len(log)].fault = "commit"]
  /\ UNCHANGED <<store, fdb_batch_size, pc, rd, workload, codec_vars, aw, net>>

\* fdb_write_event_array: a commit, of a full batch or the final one, fails:
\* nothing of the transaction is stored, goto tx_fail, return -1
WriteEventArrayCommitFails ==
  /\ pc = "write_event_array"
  /\ Faults
  /\ wr.i < Len(wr.events) => ArrayTurn(wr, fdb_batch_size).send
  /\ pc' = "idle"
  /\ wr' = NoWr
  /\ log' = CommitFailed(log)
  /\ UNCHANGED <<store, fdb_batch_size, rd, workload, codec_vars, aw, net>>

(***************************************************************************)
(* fdb.c: fdb_read_event                                                    *)
(***************************************************************************)
\* fdb_read_event(event): entry, fdb_setup_transaction succeeded
CallReadEvent(id) ==
  /\ CanCall
  /\ pc' = "read_page"
  /\ rd' = [NoRd EXCEPT !.id = id]
  /\ log' = Append(log, Entered("read_event", <<>>, id, 0))
  /\ UNCHANGED <<store, fdb_batch_size, wr, workload, codec_vars, aw, net>>

\* The counts of pairs the store may answer a range of n pairs with: all of
\* them, or a page cut short (out_more set).
PageCounts(n) ==
  {n} \cup {c \in 1..MaxPageCut : c < n /\ workload \in {"events", "faults", "retry"}}

\* memcpy(event->data + off, bytes, Len(bytes)), inside the buffer
CopyInto(data, off, bytes) ==
  [k \in 1..Len(data) |->
     IF off < k /\ k <= off + Len(bytes) THEN bytes[k - off] ELSE data[k]]

\* fdb_read_event: the range read of one turn of the do loop, answered with
\* the next c pairs; on the first page the header is decoded, the buffer
\* allocated and the payload of the first value copied.
ReadPage ==
  /\ pc = "read_page"
  /\ LET range == GetRange(store, fdb_build_event_key(rd.id, 0), rd.out_counted,
                           fdb_build_event_key(rd.id + 1, 0))
     IN  \E c \in PageCounts(Len(range)) :
           LET kv == SubSeq(range, 1, c)
               more == c < Len(range)
               got == [rd EXCEPT !.kv = kv, !.out_more = more,
                                 !.i = IF rd.out_counted = 0 THEN 1 ELSE 0]
               first == rd.num_fragments = 0 /\ c > 0
           IN  /\ log' = [log EXCEPT ![Len(log)].pages = @ + 1,
                                     ![Len(log)].cut = @ \/ more,
                                     ![Len(log)].futures = @ + 1,
                                     ![Len(log)].allocs = IF first THEN @ + 1 ELSE @]
               /\ IF rd.num_fragments # 0
                    THEN /\ rd' = got
                         /\ pc' = "read_copy"
                    ELSE IF c = 0
                    THEN \* out_kv[0] of an empty array is read
                         /\ rd' = got
                         /\ pc' = "undefined"
                    ELSE LET h == read_header(kv[1].value, 0, Indeterminate)
                             payload_length == (Len(kv[1].value) - h.header_length) % 65536
                             data_length == Mul32(h.num_fragments, OPTIMAL_VALUE_SIZE) + payload_length
                         IN  IF h.overrun \/ h.header_length + payload_length > Len(kv[1].value)
                               THEN \* a write past num_fragments, a read past the value
                                    /\ rd' = got
                                    /\ pc' = "undefined"
                               ELSE /\ rd' = [got EXCEPT
                                                !.payload_length = payload_length,
                                                !.data_length = data_length,
                                                !.allocated = TRUE,
                                                !.data = CopyInto([k \in 1..Min({data_length, BufferWindow}) |-> Indeterminate], 0,
                                                           SubSeq(kv[1].value, h.header_length + 1,
                                                                  h.header_length + payload_length)),
                                                !.num_fragments = Add32(h.num_fragments, 1)]
                                    /\ pc' = "read_copy"
  /\ UNCHANGED <<store, fdb_batch_size, wr, workload, codec_vars, aw, net>>

\* fdb_read_event: the range read fails: goto tx_fail, where event->data is
\* freed.  Before the first page was read that is the pointer the caller's
\* Event happened to hold.
ReadRangeFails ==
  /\ pc = "read_page"
  /\ Faults
  /\ IF rd.allocated
       THEN /\ pc' = "idle"
            /\ rd' = NoRd
            /\ log' = Failed(ReadFailed(log), "range")
       ELSE /\ pc' = "undefined"
            /\ log' = [ReadFailed(log) EXCEPT ![Len(log)].fault = "range"]
            /\ UNCHANGED rd
  /\ UNCHANGED <<store, fdb_batch_size, wr, workload, codec_vars, aw, net>>

\* fdb_read_event: one turn of `for (uint8_t i = ...; i < out_count; ++i)`, or
\* the loop's end: out_counted += out_count, then the next page, or the check
\* of the count against the header and the return.
ReadCopy ==
  /\ pc = "read_copy"
  /\ IF rd.i < Len(rd.kv)
       THEN LET value == rd.kv[rd.i + 1].value
                off == rd.payload_length + OPTIMAL_VALUE_SIZE * (rd.i - 1)
            IN  IF Len(value) # OPTIMAL_VALUE_SIZE
                  THEN \* goto tx_fail: the buffer is freed, return -1
                       /\ pc' = "idle"
                       /\ rd' = NoRd
                       /\ log' = Returned(ReadFailed(log), "fail")
                ELSE IF off < 0 \/ off + OPTIMAL_VALUE_SIZE > rd.data_length
                  THEN \* memcpy outside the malloc'ed buffer
                       /\ pc' = "undefined"
                       /\ UNCHANGED <<rd, log>>
                ELSE /\ rd' = [rd EXCEPT !.data = CopyInto(rd.data, off, value),
                                         !.i = (rd.i + 1) % 256]
                     /\ UNCHANGED <<pc, log>>
       ELSE LET out_counted == Add32(rd.out_counted, Len(rd.kv))
                \* fdb_future_destroy(future) at the end of the turn
                done == [log EXCEPT ![Len(log)].futures = @ - 1]
            IN  IF rd.out_more
                  THEN /\ pc' = "read_page"
                       /\ rd' = [rd EXCEPT !.out_counted = out_counted]
                       /\ log' = done
                ELSE IF rd.num_fragments # out_counted
                  THEN /\ pc' = "idle"
                       /\ rd' = NoRd
                       /\ log' = Returned([TxDestroyed(done) EXCEPT
                                             ![Len(log)].frees = @ + 1], "fail")
                ELSE /\ pc' = "idle"
                     /\ rd' = NoRd
                     /\ log' = [Returned(TxDestroyed(done), "ok") EXCEPT
                                  ![Len(log)].out = [id |-> rd.id,
                                                     data_length |-> rd.data_length,
                                                     data |-> rd.data]]
  /\ UNCHANGED <<store, fdb_batch_size, wr, workload, codec_vars, aw, net>>

\* A call that ran into undefined behaviour: nothing can be said of what
\* follows, the run ends here.
Undefined ==
  /\ pc = "undefined"
  /\ ~(Cur.ret = "undefined")
  /\ log' = Returned(log, "undefined")
  /\ UNCHANGED <<store, fdb_batch_size, pc, wr, rd, workload, codec_vars, aw, net>>

(***************************************************************************)
(* fdb.c: fdb_clear_event, fdb_clear_event_array, fdb_clear_database        *)
(***************************************************************************)
\* fdb.c: #define CLEAR_BATCH_SIZE 75000, scaled down as OPTIMAL_VALUE_SIZE is
CLEAR_BATCH_SIZE == 2

\* fdb_transaction_clear_range(tx, begin, ..., end, ...): the keys k with
\* begin <= k < end are removed
ClearOp(begin, end) == [op |-> "clear_range", key |-> begin, value |-> <<>>, end |-> end]

add_event_clear_transaction_keeps_last(tx, event) ==
  Append(tx, ClearOp(fdb_build_event_key(event.id, 0),
                     fdb_build_event_key(event.id, Sub32(event.num_fragments, 1))))

\* add_event_clear_transaction(tx, event): one range clear from the key of
\* fragment 0 up to, not including, the key of fragment num_fragments
add_event_clear_transaction(tx, event) ==
  Append(tx, ClearOp(fdb_build_event_key(event.id, 0),
                     fdb_build_event_key(event.id, event.num_fragments)))

\* The store after the transactions txs were committed one after the other.
RECURSIVE ApplyAll(_, _, _)
ApplyAll(db, txs, j) ==
  IF j > Len(txs)
    THEN db
    ELSE LET next == ApplyTx(db, txs[j])
         IN  IF Len(next) >= 0 THEN ApplyAll(next, txs, j + 1) ELSE next

CommittedAll(l, txs) ==
  [l EXCEPT ![Len(l)].commits =
     @ \o [k \in 1..Len(txs) |-> [j \in 1..Len(txs[k]) |-> txs[k][j].key]]]

\* fdb_clear_event(event), fdb_setup_transaction and the commit succeeding
ClearEvent(event) ==
  /\ CanCall
  /\ LET tx == add_event_clear_transaction(<<>>, event)
     IN  /\ store' = ApplyTx(store, tx)
         /\ log' = Returned(TxDestroyed(Committed(Append(log,
                     Entered("clear_event", <<event>>, event.id, 0)), tx)), "ok")
  /\ UNCHANGED <<fdb_batch_size, pc, wr, rd, workload, codec_vars, aw, net>>

\* fdb_clear_event whose fdb_send_transaction fails: goto tx_fail, return -1
ClearEventCommitFails(event) ==
  /\ CanCall
  /\ Faults
  /\ log' = CommitFailed(Append(log, Entered("clear_event", <<event>>, event.id, 0)))
  /\ UNCHANGED <<store, fdb_batch_size, pc, wr, rd, workload, codec_vars, aw, net>>

\* fdb_clear_event_array: the for loop from turn i (0-based) on, tx the
\* transaction being filled and sent the transactions committed before; a
\* commit follows the clear of every event whose index is a multiple of
\* CLEAR_BATCH_SIZE, and one more follows the loop.
RECURSIVE ClearArrayLoop(_, _, _, _)
ClearArrayLoop(events, i, tx, sent) ==
  IF i < Len(events)
    THEN LET added == add_event_clear_transaction(tx, events[i + 1])
         IN  IF i % CLEAR_BATCH_SIZE = 0
               THEN ClearArrayLoop(events, i + 1, <<>>, Append(sent, added))
               ELSE ClearArrayLoop(events, i + 1, added, sent)
    ELSE Append(sent, tx)

ClearArrayTxs_one_transaction(events) ==
  <<[k \in 1..Len(events) |-> add_event_clear_transaction(<<>>, events[k])[1]]>>

ClearArrayTxs_no_final_flush(events) ==
  LET all == ClearArrayLoop(events, 0, <<>>, <<>>)
  IN  SubSeq(all, 1, Len(all) - 1)

\* The transactions a fdb_clear_event_array(events, num_events) call commits
\* when none of its commits fails, in order.
ClearArrayTxs(events) == ClearArrayLoop(events, 0, <<>>, <<>>)

\* fdb_clear_event_array(events, num_events), fdb_setup_transaction and
\* every commit succeeding
ClearEventArray(events) ==
  /\ CanCall
  /\ LET txs == ClearArrayTxs(events)
     IN  /\ store' = ApplyAll(store, txs, 1)
         /\ log' = Returned(TxDestroyed(CommittedAll(Append(log,
                     Entered("clear_event_array", events, 0, 0)), txs)), "ok")
  /\ UNCHANGED <<fdb_batch_size, pc, wr, rd, workload, codec_vars, aw, net>>

\* fdb_clear_event_array whose k-th commit fails: the transactions before it
\* are stored, goto tx_fail, return -1
ClearEventArrayCommitFails(events, k) ==
  /\ CanCall
  /\ Faults
  /\ LET txs == SubSeq(ClearArrayTxs(events), 1, k - 1)
     IN  /\ store' = ApplyAll(store, txs, 1)
         /\ log' = CommitFailed(CommittedAll(Append(log,
                     Entered("clear_event_array", events, 0, 0)), txs))
  /\ UNCHANGED <<fdb_batch_size, pc, wr, rd, workload, codec_vars, aw, net>>

ClearDatabaseTx_event_keys_of_small_ids ==
  <<ClearOp(<<0>>, fdb_build_event_key(2, 0))>>

\* fdb_clear_database: uint8_t start_key[1] = {0}, end_key[1] = {0xFF} and
\* fdb_transaction_clear_range(tx, start_key, 1, end_key, 1)
ClearDatabaseTx == <<ClearOp(<<0>>, <<255>>)>>

\* fdb_clear_database(), fdb_setup_transaction and the commit succeeding
ClearDatabase ==
  /\ CanCall
  /\ store' = ApplyTx(store, ClearDatabaseTx)
  /\ log' = Returned(TxDestroyed(Committed(Append(log,
              Entered("clear_database", <<>>, 0, 0)), ClearDatabaseTx)), "ok")
  /\ UNCHANGED <<fdb_batch_size, pc, wr, rd, workload, codec_vars, aw, net>>

\* fdb_clear_database whose fdb_send_transaction fails: return -1
ClearDatabaseCommitFails ==
  /\ CanCall
  /\ Faults
  /\ log' = CommitFailed(Append(log, Entered("clear_database", <<>>, 0, 0)))
  /\ UNCHANGED <<store, fdb_batch_size, pc, wr, rd, workload, codec_vars, aw, net>>

(***************************************************************************)
(* fdb.c: fdb_send_transaction step by step, and the network thread         *)
(***************************************************************************)
\* The future fdb_transaction_commit(tx) returns for the b-th commit of the
\* call: pending until the network thread has resolved the commit, then
\* committed or failed; cb tells whether a callback was set on it ("set"),
\* is running ("run") or has run ("done").
Future(tx, b) == [tx |-> tx, b |-> b, status |-> "pending", cb |-> "none"]

\* fdb_transaction_commit(tx): the operations tx holds go to the cluster
Commit(n, tx) == [n EXCEPT !.futures = Append(@, Future(tx, Len(@)))]

Pending(n) == {k \in 1..Len(n.futures) : n.futures[k].status = "pending"}

\* Where the caller thread is while commits of its call may be in flight.
SyncWaitPcs == {"sync_event_wait", "sync_array_wait", "sync_final_wait"}
AsyncPcs == {"async_loop", "async_commit", "async_set_callback", "async_callback",
             "async_wait"}

\* network_thread_func, fdb_run_network: a commit in flight is applied to the
\* store, its future becomes ready
NetCommit ==
  /\ pc \in SyncWaitPcs \cup AsyncPcs
  /\ \E k \in Pending(net) :
       /\ store' = ApplyTx(store, net.futures[k].tx)
       /\ net' = [net EXCEPT !.futures[k].status = "committed"]
       /\ log' = Committed(log, net.futures[k].tx)
  /\ UNCHANGED <<fdb_batch_size, pc, wr, rd, workload, aw, codec_vars>>

\* The cluster refuses a commit in flight: its future becomes ready with an
\* error, nothing of the transaction is stored
NetCommitFails ==
  /\ pc \in SyncWaitPcs \cup AsyncPcs
  /\ Faults
  /\ \E k \in Pending(net) :
       /\ net' = [net EXCEPT !.futures[k].status = "failed"]
       /\ log' = [log EXCEPT ![Len(log)].fault = "commit"]
  /\ UNCHANGED <<store, fdb_batch_size, pc, wr, rd, workload, aw, codec_vars>>

\* fdb_write_event(event) taken one fdb_send_transaction step at a time:
\* entry, fdb_setup_transaction succeeded
SyncCallWriteEvent(event) ==
  /\ CanCall
  /\ pc' = "sync_event"
  /\ wr' = [NoWr EXCEPT !.events = <<event>>]
  /\ net' = NoNet
  /\ log' = Append(log, Entered("write_event", <<event>>, event.id, 0))
  /\ UNCHANGED <<store, fdb_batch_size, rd, workload, aw, codec_vars>>

\* fdb_write_event: one turn of `while (i < event->num_fragments)` up to the
\* fdb_transaction_commit of fdb_send_transaction; or the loop's end and
\* return 0
SyncWriteEventTurn ==
  /\ pc = "sync_event"
  /\ LET event == wr.events[1]
     IN  IF wr.i < event.num_fragments
           THEN LET a == add_event_set_transactions(wr.tx, event, wr.i, fdb_batch_size, wr.junk)
                IN  /\ wr' = [wr EXCEPT !.i = Add32(wr.i, a.num_kvp), !.tx = a.tx]
                    /\ net' = Commit(net, a.tx)
                    /\ pc' = "sync_event_wait"
                    /\ UNCHANGED log
           ELSE /\ pc' = "idle"
                /\ wr' = NoWr
                /\ log' = Returned(TxDestroyed(log), "ok")
                /\ UNCHANGED net
  /\ UNCHANGED <<store, fdb_batch_size, rd, workload, aw, codec_vars>>

\* fdb_write_event_array(events, num_events) taken one fdb_send_transaction
\* step at a time: entry, fdb_setup_transaction succeeded
SyncCallWriteEventArray(events) ==
  /\ CanCall
  /\ pc' = "sync_array"
  /\ wr' = [NoWr EXCEPT !.events = events]
  /\ net' = NoNet
  /\ log' = Append(log, Entered("write_event_array", events, 0, 0))
  /\ UNCHANGED <<store, fdb_batch_size, rd, workload, aw, codec_vars>>

\* fdb_write_event_array: one turn of `while (i < num_events)` up to the
\* fdb_transaction_commit of its fdb_send_transaction, if the batch is full;
\* or, the loop over, the fdb_transaction_commit of the final one
SyncWriteEventArrayTurn ==
  /\ pc = "sync_array"
  /\ IF wr.i < Len(wr.events)
       THEN LET t == ArrayTurn(wr, fdb_batch_size)
            IN  /\ wr' = t.frame
                /\ IF t.send
                     THEN /\ net' = Commit(net, t.frame.tx)
                          /\ pc' = "sync_array_wait"
                     ELSE UNCHANGED <<net, pc>>
       ELSE /\ net' = Commit(net, wr.tx)
            /\ pc' = "sync_final_wait"
            /\ UNCHANGED wr
  /\ UNCHANGED <<store, fdb_batch_size, rd, log, workload, aw, codec_vars>>

\* What follows fdb_send_transaction in the caller, given the status of the
\* future the call waited on or gave up waiting on: on an error goto tx_fail
\* and return -1; else the future is destroyed, the transaction reset and the
\* loop goes on, or, after the final commit, the call returns 0.
AfterSend(status) ==
  IF status = "failed"
    THEN /\ pc' = "idle"
         /\ wr' = NoWr
         /\ log' = CommitFailed(log)
  ELSE IF pc = "sync_final_wait"
    THEN /\ pc' = "idle"
         /\ wr' = NoWr
         /\ log' = Returned(TxDestroyed(log), "ok")
    ELSE /\ pc' = IF pc = "sync_array_wait" THEN "sync_array" ELSE "sync_event"
         /\ wr' = [wr EXCEPT !.tx = <<>>, !.batch_filled = 0]
         /\ UNCHANGED log

SendTransactionReturns_without_waiting ==
  /\ pc \in SyncWaitPcs
  /\ AfterSend(net.futures[Len(net.futures)].status)
  /\ UNCHANGED <<store, fdb_batch_size, rd, workload, aw, net, codec_vars>>

\* fdb_send_transaction: fdb_future_block_until_ready(future) returns once
\* the future is ready, fdb_future_get_error(future) tells how the commit
\* ended
SendTransactionReturns ==
  /\ pc \in SyncWaitPcs
  /\ net.futures[Len(net.futures)].status # "pending"
  /\ AfterSend(net.futures[Len(net.futures)].status)
  /\ UNCHANGED <<store, fdb_batch_size, rd, workload, aw, net, codec_vars>>

(***************************************************************************)
(* fdb_timer.c: fdb_timed_write_event_array_async and write_callback_async  *)
(***************************************************************************)
\* total_fragments(events, num_events): the sum of the num_fragments of the
\* events, a uint32_t
RECURSIVE SumFragments(_, _)
SumFragments(events, n) ==
  IF n = 0 THEN 0 ELSE Add32(SumFragments(events, n - 1), events[n].num_fragments)
total_fragments(events) == SumFragments(events, Len(events))

\* uint32_t num_batches = (uint32_t) ceil(total_fragments(events, num_events) /
\* fdb_batch_size): the division is one of integers, ceil gets its quotient
NumBatches(events, batch_size) == total_fragments(events) \div batch_size

\* fdb_timed_write_event_array_async(events, num_events): entry, every
\* fdb_setup_transaction(&txs[j]) succeeded
CallWriteEventArrayAsync(events) ==
  /\ CanCall
  /\ LET num_batches == NumBatches(events, fdb_batch_size)
     IN  /\ aw' = [NoAw EXCEPT !.events = events,
                               !.num_batches = num_batches,
                               !.txs_processing = num_batches,
                               !.txs = [j \in 1..num_batches |->
                                          [ops |-> <<>>, state |-> "open"]]]
         /\ log' = Append(log, [Call("write_event_array_async", events, 0, 0)
                                  EXCEPT !.transactions = num_batches])
  /\ net' = NoNet
  /\ pc' = "async_loop"
  /\ UNCHANGED <<store, fdb_batch_size, wr, rd, workload, codec_vars>>

\* The locals after a commit was handed its callback: batch_filled = 0 and
\* `if (b < (num_batches - 1)) b++`
AfterCommit(a) ==
  [a EXCEPT !.batch_filled = 0,
            !.b = IF a.b < Sub32(a.num_batches, 1) THEN Add32(a.b, 1) ELSE a.b]

\* One turn of `while (i < num_events)` up to `if (batch_filled ==
\* fdb_batch_size)`, the fragments added to txs[b]; or, the loop over,
\* `if (b < (num_batches - 1))`.  txs[b] is an element of an array of no
\* elements when num_batches is 0, and a destroyed transaction once the
\* callback of its commit has run.
AsyncLoopTurn ==
  /\ pc = "async_loop"
  /\ IF aw.i < Len(aw.events)
       THEN IF aw.num_batches = 0 \/ aw.txs[aw.b + 1].state = "destroyed"
              THEN /\ pc' = "undefined"
                   /\ UNCHANGED aw
              ELSE LET event == aw.events[aw.i + 1]
                       limit == IF aw.batch_filled = 0 THEN fdb_batch_size
                                ELSE Sub32(fdb_batch_size, aw.batch_filled)
                       a == add_event_set_transactions(aw.txs[aw.b + 1].ops, event,
                                                       aw.frag_pos, limit, 0)
                       batch_filled == IF aw.batch_filled = 0 THEN a.num_kvp
                                       ELSE Add32(aw.batch_filled, a.num_kvp)
                       frag_pos == Add32(aw.frag_pos, a.num_kvp)
                       done == frag_pos = event.num_fragments
                   IN  /\ aw' = [aw EXCEPT !.txs[aw.b + 1].ops = a.tx,
                                           !.batch_filled = batch_filled,
                                           !.frag_pos = IF done THEN 0 ELSE frag_pos,
                                           !.i = IF done THEN Add32(aw.i, 1) ELSE aw.i]
                       /\ pc' = IF batch_filled = fdb_batch_size
                                  THEN "async_commit" ELSE "async_loop"
       ELSE IF aw.b < Sub32(aw.num_batches, 1)
              THEN /\ aw' = [aw EXCEPT !.final = TRUE]
                   /\ pc' = "async_commit"
              ELSE /\ pc' = "async_wait"
                   /\ UNCHANGED aw
  /\ UNCHANGED <<store, fdb_batch_size, wr, rd, log, workload, net, codec_vars>>

\* futures[b] = fdb_transaction_commit(txs[b])
AsyncCommit ==
  /\ pc = "async_commit"
  /\ IF aw.num_batches = 0 \/ aw.txs[aw.b + 1].state # "open"
       THEN /\ pc' = "undefined"
            /\ UNCHANGED <<aw, net>>
       ELSE /\ net' = Commit(net, aw.txs[aw.b + 1].ops)
            /\ aw' = [aw EXCEPT !.txs[aw.b + 1].state = "committing"]
            /\ pc' = "async_set_callback"
  /\ UNCHANGED <<store, fdb_batch_size, wr, rd, log, workload, codec_vars>>

\* fdb_future_set_callback(futures[b], &write_callback_async, cbd): the
\* callback is kept for the network thread to call when the future becomes
\* ready; on a future that is ready already it is called at once, in this
\* thread, and has read *cbd->txs_processing
AsyncSetCallback ==
  /\ pc = "async_set_callback"
  /\ LET k == Len(net.futures)
     IN  IF net.futures[k].status = "pending"
           THEN /\ net' = [net EXCEPT !.futures[k].cb = "set"]
                /\ aw' = AfterCommit(aw)
                /\ pc' = IF aw.final THEN "async_wait" ELSE "async_loop"
           ELSE /\ net' = [net EXCEPT !.futures[k].cb = "run"]
                /\ aw' = [aw EXCEPT !.cb = k, !.loaded = aw.txs_processing]
                /\ pc' = "async_callback"
  /\ UNCHANGED <<store, fdb_batch_size, wr, rd, log, workload, codec_vars>>

\* fdb_future_set_callback returns an error: goto tx_fail, return -1
AsyncSetCallbackFails ==
  /\ pc = "async_set_callback"
  /\ Faults
  /\ pc' = "idle"
  /\ log' = Failed(log, "callback")
  /\ UNCHANGED <<store, fdb_batch_size, wr, rd, workload, aw, net, codec_vars>>

\* write_callback_async called in the caller's thread, from its read of the
\* counter on: (*cbd->txs_processing)--, fdb_transaction_destroy(cbd->tx)
AsyncCallback ==
  /\ pc = "async_callback"
  /\ aw' = AfterCommit([aw EXCEPT !.txs_processing = Sub32(aw.loaded, 1),
                                  !.txs[net.futures[aw.cb].b + 1].state = "destroyed",
                                  !.cb = 0])
  /\ net' = [net EXCEPT !.futures[aw.cb].cb = "done"]
  /\ pc' = IF aw.final THEN "async_wait" ELSE "async_loop"
  /\ UNCHANGED <<store, fdb_batch_size, wr, rd, log, workload, codec_vars>>

\* write_callback_async called by the network thread for a future that is
\* ready, up to its read of *cbd->txs_processing
NetCallbackLoad ==
  /\ pc \in AsyncPcs
  /\ net.running = 0
  /\ \E k \in 1..Len(net.futures) :
       /\ net.futures[k].status # "pending"
       /\ net.futures[k].cb = "set"
       /\ net' = [net EXCEPT !.futures[k].cb = "run", !.running = k,
                             !.loaded = aw.txs_processing]
  /\ UNCHANGED <<store, fdb_batch_size, pc, wr, rd, log, workload, aw, codec_vars>>

\* write_callback_async in the network thread, the rest: the decremented
\* counter is written back, fdb_transaction_destroy(cbd->tx)
NetCallbackStore ==
  /\ pc \in AsyncPcs
  /\ net.running # 0
  /\ aw' = [aw EXCEPT !.txs_processing = Sub32(net.loaded, 1),
                      !.txs[net.futures[net.running].b + 1].state = "destroyed"]
  /\ net' = [net EXCEPT !.futures[net.running].cb = "done", !.running = 0]
  /\ UNCHANGED <<store, fdb_batch_size, pc, wr, rd, log, workload, codec_vars>>

\* `while (0 != txs_processing);` is left when the counter reads 0: return 0.
\* (The read races with the callbacks' writes; a build that reads the counter
\* once never leaves the loop, which is this action never taken.)
AsyncReturn ==
  /\ pc = "async_wait"
  /\ aw.txs_processing = 0
  /\ pc' = "idle"
  /\ log' = Returned(log, "ok")
  /\ UNCHANGED <<store, fdb_batch_size, wr, rd, workload, aw, net, codec_vars>>

(***************************************************************************)
(* The caller: the inputs of each workload                                  *)
(***************************************************************************)
Workloads == {"events", "batches", "arrays", "faults", "big", "raw", "retry", "clears", "sync", "async"}
JunkBytes == {0, 255}

EventIds ==
  IF workload \in {"events", "faults"} THEN {1, 2}
  ELSE IF workload = "arrays" THEN {1, 2, 3}
  ELSE {1}
BatchSizes ==
  IF workload = "events" THEN {0, 1, 2, 4}
  ELSE IF workload = "batches" THEN {0, 2, UINT32_MODULUS - 1}
  ELSE IF workload = "arrays" THEN {1, 2, 4}
  ELSE IF workload \in {"faults", "sync"} THEN {2}
  ELSE IF workload = "async" THEN {2, 3}
  ELSE IF workload = "retry" THEN {1}
  ELSE {64}
EventLengths ==
  IF workload = "events"
    THEN {0, 1, OPTIMAL_VALUE_SIZE, OPTIMAL_VALUE_SIZE + 1,
          3 * OPTIMAL_VALUE_SIZE, 4 * OPTIMAL_VALUE_SIZE}
  ELSE IF workload = "batches"
    THEN {0, OPTIMAL_VALUE_SIZE + 1, 4 * OPTIMAL_VALUE_SIZE}
  ELSE IF workload = "arrays"
    THEN {0, 1, OPTIMAL_VALUE_SIZE + 1, 3 * OPTIMAL_VALUE_SIZE}
  ELSE IF workload = "retry"
    THEN {OPTIMAL_VALUE_SIZE + 1, 2 * OPTIMAL_VALUE_SIZE + 1, 3 * OPTIMAL_VALUE_SIZE}
  ELSE IF workload \in {"faults", "clears", "sync"}
    THEN {OPTIMAL_VALUE_SIZE + 1, 3 * OPTIMAL_VALUE_SIZE}
  ELSE IF workload = "async"
    THEN {1, OPTIMAL_VALUE_SIZE + 1}
  ELSE {255 * OPTIMAL_VALUE_SIZE, 256 * OPTIMAL_VALUE_SIZE}
\* The events of a workload, fragmented by the caller before the call.
Events == {Event(id, DataSeed, len) : id \in EventIds, len \in EventLengths}

\* Only a read past the end of a buffer sees junk: an event of no bytes.
WriteJunk(event) == IF event.data_length = 0 THEN JunkBytes ELSE {0}

\* The arrays of fdb_write_event_array: up to three events in the id orders
\* of ArrayIds, each of a length of EventLengths; and the array of the
\* batch-boundary scenario, events of 1, 10 and 1 fragments.
ArrayIds ==
  IF workload = "arrays"
    THEN {<<>>, <<1>>, <<1, 2>>, <<2, 1>>, <<1, 1>>, <<1, 2, 3>>}
  ELSE IF workload = "clears"
    THEN {<<1, 2, 3>>}
  ELSE IF workload = "async"
    THEN {<<>>, <<1>>, <<1, 2>>}
    ELSE {<<1, 2>>}
Arrays ==
  UNION {{[j \in 1..Len(ids) |-> fragment_event(Event(ids[j], DataSeed, lens[j]))] :
            lens \in [1..Len(ids) -> EventLengths]} : ids \in ArrayIds}
BoundaryArray ==
  <<fragment_event(Event(1, DataSeed, 1)),
    fragment_event(Event(2, DataSeed, 10 * OPTIMAL_VALUE_SIZE)),
    fragment_event(Event(3, DataSeed, 1))>>
ArrayJunk(events) ==
  IF \E j \in 1..Len(events) : events[j].num_fragments = 0 THEN JunkBytes ELSE {0}

\* The key-value pairs a test sets by hand in a transaction of its own, as
\* test_clear_event does for the keys of a dummy event: the pairs of a
\* fragmented event of three fragments as they are, or with the value of one
\* later fragment of another length, one pair left out, or one more pair
\* after the last.
RawLengths == {0, OPTIMAL_VALUE_SIZE - 1, OPTIMAL_VALUE_SIZE + 1}
\* The events' bytes are those of DataSeed, or such that the second fragment
\* of an event of whole fragments begins with the byte 0 or 1: a fragment that
\* reads as the header of an event of one or two fragments.
RawSeeds ==
  {DataSeed} \cup {seed \in 0..255 : DataByte(seed, OPTIMAL_VALUE_SIZE) \in {0, 1}}
RawEvents ==
  {fragment_event(Event(1, seed, len)) :
     seed \in RawSeeds,
     len \in {2 * OPTIMAL_VALUE_SIZE + 1, 3 * OPTIMAL_VALUE_SIZE}}
RawAlterations(event) ==
  {[kind |-> "none", g |-> 0, len |-> 0]}
    \cup {[kind |-> "resize", g |-> g, len |-> len] :
            g \in 1..(event.num_fragments - 1), len \in RawLengths}
    \cup {[kind |-> "drop", g |-> g, len |-> 0] : g \in 0..(event.num_fragments - 1)}
    \cup {[kind |-> "extra", g |-> event.num_fragments, len |-> len] :
            len \in {OPTIMAL_VALUE_SIZE, OPTIMAL_VALUE_SIZE + 1}}
RawTx(event, alt) ==
  LET full == add_event_set_transactions(<<>>, event, 0, event.num_fragments, 0).tx
      raw == SetOp(fdb_build_event_key(event.id, alt.g), EventData(DataSeed, alt.len))
  IN  IF alt.kind = "resize"
        THEN SubSeq(full, 1, alt.g) \o <<raw>> \o SubSeq(full, alt.g + 2, Len(full))
      ELSE IF alt.kind = "drop"
        THEN SubSeq(full, 1, alt.g) \o SubSeq(full, alt.g + 2, Len(full))
      ELSE IF alt.kind = "extra"
        THEN full \o <<raw>>
      ELSE full

\* fdb_setup_transaction(&tx); fdb_transaction_set(tx, key, ...) for every
\* pair; fdb_send_transaction(tx): the test's own transaction, committed
SetRaw(event, alt) ==
  /\ CanCall
  /\ LET tx == RawTx(event, alt)
     IN  /\ store' = ApplyTx(store, tx)
         /\ log' = Returned(Committed(Append(log,
                     Call("set_raw", <<event>>, event.id, 0)), tx), "ok")
  /\ UNCHANGED <<fdb_batch_size, pc, wr, rd, workload, codec_vars, aw, net>>

\* The positions fdb_write_batch is called with: inside the event, at its end
\* and one past it.
BatchPositions(event) == 0..(fragment_event(event).num_fragments + 1)

\* The events and the arrays the clear calls are given: events of the ids the
\* run wrote, of the fragment counts they were written with or of others, in
\* several orders, the longest array longer than CLEAR_BATCH_SIZE.
ClearEvents ==
  {fragment_event(Event(id, DataSeed, len)) : id \in {1, 2, 3}, len \in EventLengths}
ClearArrayIds == {<<2, 1>>, <<3, 1, 2, 1>>}
ClearArrays ==
  {[j \in 1..Len(ids) |-> fragment_event(Event(ids[j], DataSeed, len))] :
     ids \in ClearArrayIds, len \in EventLengths}

\* A run of the "arrays", "big", "clears", "sync" or "async" workload writes
\* once.
WriteOps == {"write_event", "write_batch", "write_event_array"}
CanWrite ==
  /\ CanCall
  /\ workload \in {"arrays", "big", "clears", "sync", "async"} => \A j \in 1..Len(log) : log[j].op \notin WriteOps

ChooseWorkload ==
  /\ workload = "none"
  /\ CodecIdle
  /\ workload' \in Workloads
  /\ UNCHANGED <<store, fdb_batch_size, pc, wr, rd, log, codec_vars, aw, net>>

\* The calls of the tests, their arguments drawn from the workload's inputs.
TestSetBatchSize ==
  /\ CanCall /\ workload # "none"
  /\ \E b \in BatchSizes : SetBatchSize(b)

TestWriteEvent ==
  /\ CanWrite /\ workload \in {"events", "faults", "big", "retry"}
  /\ \E e \in Events : \E junk \in WriteJunk(e) : CallWriteEvent(fragment_event(e), junk)

TestWriteEventSetupFails ==
  /\ CanCall /\ Faults /\ workload = "faults"
  /\ \E e \in Events : SetupFails("write_event", <<fragment_event(e)>>, e.id, 0)

TestWriteBatch ==
  /\ CanWrite /\ workload = "batches"
  /\ \E e \in Events : \E pos \in BatchPositions(e), junk \in WriteJunk(e) :
       WriteBatch(fragment_event(e), pos, junk)

TestWriteBatchCommitFails ==
  /\ CanCall /\ Faults /\ workload = "batches"
  /\ \E e \in Events : \E pos \in BatchPositions(e) :
       WriteBatchCommitFails(fragment_event(e), pos)

TestWriteBatchSetupFails ==
  /\ CanCall /\ Faults /\ workload = "batches"
  /\ \E e \in Events : \E pos \in BatchPositions(e) :
       SetupFails("write_batch", <<fragment_event(e)>>, e.id, pos)

TestWriteEventArray ==
  /\ CanWrite /\ workload \in {"arrays", "faults", "clears"}
  /\ \E events \in Arrays \cup (IF workload = "arrays" THEN {BoundaryArray} ELSE {}) :
       \E junk \in ArrayJunk(events) : CallWriteEventArray(events, junk)

TestWriteEventArraySetupFails ==
  /\ CanCall /\ Faults /\ workload = "faults"
  /\ \E events \in Arrays : SetupFails("write_event_array", events, 0, 0)

\* The writes of the "sync" workload are followed commit by commit.
TestSyncWriteEvent ==
  /\ CanWrite /\ workload = "sync"
  /\ \E e \in Events : SyncCallWriteEvent(fragment_event(e))

TestSyncWriteEventArray ==
  /\ CanWrite /\ workload = "sync"
  /\ \E events \in Arrays : SyncCallWriteEventArray(events)

\* A run of the "async" workload calls fdb_timed_write_event_array_async
\* once.
CanWriteAsync ==
  /\ CanCall /\ workload = "async"
  /\ \A j \in 1..Len(log) : log[j].op # "write_event_array_async"

TestWriteEventArrayAsync ==
  /\ CanWriteAsync
  /\ \E events \in Arrays : CallWriteEventArrayAsync(events)

\* One of the fdb_setup_transaction(&txs[j]) fails: return -1
TestWriteEventArrayAsyncSetupFails ==
  /\ CanWriteAsync /\ Faults
  /\ \E events \in Arrays :
       /\ NumBatches(events, fdb_batch_size) > 0
       /\ SetupFails("write_event_array_async", events, 0, 0)

TestSetRaw ==
  /\ CanCall /\ workload = "raw"
  /\ \A j \in 1..Len(log) : log[j].op # "set_raw"
  /\ \E event \in RawEvents : \E alt \in RawAlterations(event) : SetRaw(event, alt)

TestClearEvent ==
  /\ CanCall /\ workload = "clears"
  /\ \E event \in ClearEvents : ClearEvent(event)

TestClearEventCommitFails ==
  /\ CanCall /\ Faults /\ workload = "clears"
  /\ \E event \in ClearEvents : ClearEventCommitFails(event)

TestClearEventArray ==
  /\ CanCall /\ workload = "clears"
  /\ \E events \in ClearArrays : ClearEventArray(events)

TestClearEventArrayCommitFails ==
  /\ CanCall /\ Faults /\ workload = "clears"
  /\ \E events \in ClearArrays : \E k \in 1..Len(ClearArrayTxs(events)) :
       ClearEventArrayCommitFails(events, k)

TestClearDatabase ==
  /\ CanCall /\ workload = "clears"
  /\ ClearDatabase

TestClearDatabaseCommitFails ==
  /\ CanCall /\ Faults /\ workload = "clears"
  /\ ClearDatabaseCommitFails

TestClearSetupFails ==
  /\ CanCall /\ Faults /\ workload = "clears"
  /\ \/ \E event \in ClearEvents : SetupFails("clear_event", <<event>>, event.id, 0)
     \/ \E events \in ClearArrays : SetupFails("clear_event_array", events, 0, 0)
     \/ SetupFails("clear_database", <<>>, 0, 0)

TestReadEvent ==
  /\ CanCall /\ workload # "none"
  /\ \E id \in EventIds : CallReadEvent(id)

TestReadEventSetupFails ==
  /\ CanCall /\ Faults
  /\ \E id \in EventIds : SetupFails("read_event", <<>>, id, 0)

Next ==
  \/ ChooseWorkload
  \/ TestSetBatchSize
  \/ TestWriteEvent
  \/ TestWriteEventSetupFails
  \/ WriteEventStep
  \/ WriteEventCommitFails
  \/ TestWriteBatch
  \/ TestWriteBatchCommitFails
  \/ TestWriteBatchSetupFails
  \/ TestWriteEventArray
  \/ TestWriteEventArraySetupFails
  \/ WriteEventArrayStep
  \/ WriteEventArrayCommitFails
  \/ TestSyncWriteEvent
  \/ SyncWriteEventTurn
  \/ TestSyncWriteEventArray
  \/ SyncWriteEventArrayTurn
  \/ SendTransactionReturns
  \/ NetCommit
  \/ NetCommitFails
  \/ TestWriteEventArrayAsync
  \/ TestWriteEventArrayAsyncSetupFails
  \/ AsyncLoopTurn
  \/ AsyncCommit
  \/ AsyncSetCallback
  \/ AsyncSetCallbackFails
  \/ AsyncCallback
  \/ NetCallbackLoad
  \/ NetCallbackStore
  \/ AsyncReturn
  \/ TestSetRaw
  \/ TestClearEvent
  \/ TestClearEventCommitFails
  \/ TestClearEventArray
  \/ TestClearEventArrayCommitFails
  \/ TestClearDatabase
  \/ TestClearDatabaseCommitFails
  \/ TestClearSetupFails
  \/ TestReadEvent
  \/ TestReadEventSetupFails
  \/ ReadPage
  \/ ReadRangeFails
  \/ ReadCopy
  \/ Undefined

Init == DbInit /\ CodecIdle

Spec == Init /\ [][Next]_vars

\* The runs of the "arrays" workload alone: the batch size is set, one array
\* is written by fdb_write_event_array, events are read back.
ChooseArrays == ChooseWorkload /\ workload' = "arrays"

ArraysNext ==
  \/ ChooseArrays
  \/ TestSetBatchSize
  \/ TestWriteEventArray
  \/ WriteEventArrayStep
  \/ TestReadEvent
  \/ ReadPage
  \/ ReadCopy
  \/ Undefined

SpecArrays == Init /\ [][ArraysNext]_vars

\* The runs of the "events" workload alone: events are written by
\* fdb_write_event, one or several times, and read back.
ChooseEvents == ChooseWorkload /\ workload' = "events"

EventsNext ==
  \/ ChooseEvents
  \/ TestSetBatchSize
  \/ TestWriteEvent
  \/ WriteEventStep
  \/ TestReadEvent
  \/ ReadPage
  \/ ReadCopy
  \/ Undefined

SpecEvents == Init /\ [][EventsNext]_vars

\* The writes of the "faults" workload alone: fdb_write_event and
\* fdb_write_event_array calls during which the store refuses one commit.
ChooseFaults == ChooseWorkload /\ workload' = "faults"

FaultyWritesNext ==
  \/ ChooseFaults
  \/ TestSetBatchSize
  \/ TestWriteEvent
  \/ WriteEventStep
  \/ WriteEventCommitFails
  \/ TestWriteEventArray
  \/ WriteEventArrayStep
  \/ WriteEventArrayCommitFails

SpecFaultyWrites == Init /\ [][FaultyWritesNext]_vars

\* The runs of the "clears" workload in which the store refuses nothing: an
\* array of three events is written, then events, arrays of events or the
\* whole database are cleared.
ChooseClears == ChooseWorkload /\ workload' = "clears"

ClearsNext ==
  \/ ChooseClears
  \/ TestWriteEventArray
  \/ WriteEventArrayStep
  \/ TestClearEvent
  \/ TestClearEventArray
  \/ TestClearDatabase

SpecClears == Init /\ [][ClearsNext]_vars

\* The runs of the "sync" workload: fdb_write_event and fdb_write_event_array
\* calls followed commit by commit, the network thread resolving each commit
\* or refusing it.
ChooseSync == ChooseWorkload /\ workload' = "sync"

SyncNext ==
  \/ ChooseSync
  \/ TestSetBatchSize
  \/ TestSyncWriteEvent
  \/ SyncWriteEventTurn
  \/ TestSyncWriteEventArray
  \/ SyncWriteEventArrayTurn
  \/ SendTransactionReturns
  \/ NetCommit
  \/ NetCommitFails

SpecSync == Init /\ [][SyncNext]_vars

\* The runs of the "async" workload: one fdb_timed_write_event_array_async
\* call, the caller thread and the network thread taking their steps in any
\* order.
ChooseAsync == ChooseWorkload /\ workload' = "async"

AsyncNext ==
  \/ ChooseAsync
  \/ TestSetBatchSize
  \/ TestWriteEventArrayAsync
  \/ TestWriteEventArrayAsyncSetupFails
  \/ AsyncLoopTurn
  \/ AsyncCommit
  \/ AsyncSetCallback
  \/ AsyncSetCallbackFails
  \/ AsyncCallback
  \/ NetCommit
  \/ NetCommitFails
  \/ NetCallbackLoad
  \/ NetCallbackStore
  \/ AsyncReturn
  \/ Undefined

SpecAsync == Init /\ [][AsyncNext]_vars

\* The next step of the thread that called
\* fdb_timed_write_event_array_async, and the next step of the network thread
\* (network_thread_func): a commit in flight completes, the callback of a
\* future that is ready is called, a callback that has read the counter
\* writes it back.
CallerStep ==
  \/ AsyncLoopTurn
  \/ AsyncCommit
  \/ AsyncSetCallback
  \/ AsyncCallback
  \/ AsyncReturn
  \/ Undefined
NetworkStep ==
  \/ NetCommit
  \/ NetCommitFails
  \/ NetCallbackLoad
  \/ NetCallbackStore

\* SpecAsync with both threads scheduled: neither stops while it has a step
\* to take.
FairSpecAsync == SpecAsync /\ WF_vars(CallerStep) /\ WF_vars(NetworkStep)

(***************************************************************************)
(* Claims on the write and read paths                                       *)
(***************************************************************************)
\* The keys of db in the range fdb_read_event reads for id.
KeysOfId(db, id) ==
  {k \in StoreKeys(db) : /\ KeyLessEq(fdb_build_event_key(id, 0), k)
                         /\ KeyLess(k, fdb_build_event_key(id + 1, 0))}

Ceil(a, b) == (a + b - 1) \div b

\* C1: an event of data_length >= 1 written by a successful fdb_write_event,
\* under any batch size >= 1, into a store holding no key of its id, and then
\* read by fdb_read_event with the whole range returned in a single page, comes
\* back with success, the original data_length and the original bytes.
C1_WriteReadRoundTrip ==
  \A j \in 1..(Len(log) - 1) :
    LET w == log[j]
        r == log[j + 1]
    IN  ( /\ w.op = "write_event" /\ w.ret = "ok"
          /\ Len(w.events[1].data) >= 1
          /\ w.batch_size >= 1
          /\ KeysOfId(w.pre, w.id) = {}
          /\ r.op = "read_event" /\ r.id = w.id
          /\ r.fault = "none"
          /\ r.ret \in {"ok", "fail", "undefined"}
          /\ r.pages = 1 /\ ~r.cut )
        => /\ r.ret = "ok"
           /\ r.out.data_length = Len(w.events[1].data)
           /\ r.out.data = w.events[1].data

\* What C2 expects at key(id, i) of a written event: header ++ first payload
\* for i = 0, the OPTIMAL_VALUE_SIZE bytes of fragment i otherwise.
ExpectedValue(e, i) ==
  IF i = 0
    THEN e.header \o SubSeq(e.data, 1, e.payload_length)
    ELSE SubSeq(e.data, e.fragments[i + 1] + 1, e.fragments[i + 1] + OPTIMAL_VALUE_SIZE)

ArrayWritten ==
  /\ pc = "idle" /\ Len(log) >= 1
  /\ Cur.op = "write_event_array" /\ Cur.ret = "ok"

DistinctIds(events) ==
  \A a, b \in 1..Len(events) : a # b => events[a].id # events[b].id

\* C2: after a successful fdb_write_event_array of events with pairwise
\* distinct ids, each of at least one fragment, into an empty store, the keys
\* stored are exactly key(id, 0) .. key(id, num_fragments - 1) of each event;
\* key(id, 0) holds header ++ first payload (header_length + payload_length
\* bytes) and key(id, i), i >= 1, holds fragment i, OPTIMAL_VALUE_SIZE bytes.
C2_ArrayStoreContent ==
  ( /\ ArrayWritten
    /\ Cur.pre = EmptyStore
    /\ DistinctIds(Cur.events)
    /\ \A a \in 1..Len(Cur.events) : Cur.events[a].num_fragments >= 1 )
  => /\ StoreKeys(store) =
          UNION {{fdb_build_event_key(Cur.events[a].id, i) :
                    i \in 0..(Cur.events[a].num_fragments - 1)} : a \in 1..Len(Cur.events)}
     /\ Len(store) = Cardinality(StoreKeys(store))
     /\ \A a \in 1..Len(Cur.events) : \A i \in 0..(Cur.events[a].num_fragments - 1) :
          LET e == Cur.events[a]
              value == Lookup(store, fdb_build_event_key(e.id, i))
          IN  /\ value = ExpectedValue(e, i)
              /\ Len(value) = IF i = 0 THEN e.header_length + e.payload_length
                              ELSE OPTIMAL_VALUE_SIZE

\* C2's case: three events of distinct ids, one of several fragments, written
\* into the empty store under a batch size that makes a batch span two events.
C2_Witness ==
  /\ ArrayWritten
  /\ Cur.pre = EmptyStore
  /\ DistinctIds(Cur.events)
  /\ Len(Cur.events) = 3
  /\ \A a \in 1..3 : Cur.events[a].num_fragments >= 1
  /\ \E a \in 1..3 : Cur.events[a].num_fragments = 3
  /\ Cur.batch_size = 2
  /\ Len(store) >= 5

\* C3: every transaction committed by fdb_write_batch, fdb_write_event and
\* fdb_write_event_array holds at most fdb_batch_size set operations.
C3_BatchLimit ==
  \A j \in 1..Len(log) :
    log[j].op \in WriteOps =>
      \A c \in 1..Len(log[j].commits) : Len(log[j].commits[c]) <= log[j].batch_size

\* The events of an array that a committed transaction (its keys) touches.
EventsIn(events, commit) ==
  {a \in 1..Len(events) :
     \E c \in 1..Len(commit) : \E i \in 0..(events[a].num_fragments - 1) :
       commit[c] = fdb_build_event_key(events[a].id, i)}

\* C4: fdb_write_event_array on events of 1, 10 and 1 fragments under
\* batch size 4 commits exactly 3 transactions, none holding fragments of more
\* than two events, and those two adjacent.
C4_BoundaryScenario ==
  ( /\ ArrayWritten
    /\ Cur.events = BoundaryArray
    /\ Cur.batch_size = 4 )
  => /\ Len(Cur.commits) = 3
     /\ \A c \in 1..Len(Cur.commits) :
          LET touched == EventsIn(Cur.events, Cur.commits[c])
          IN  /\ Cardinality(touched) <= 2
              /\ \A a, b \in touched : a - b \in {-1, 0, 1}

\* C5: a successful fdb_write_event of an event of n >= 1 fragments under
\* batch size B >= 1 issued exactly ceil(n / B) commits, each of at least one
\* set operation, and the store then holds exactly n keys in the event's range.
C5_WriteEventCommits ==
  ( /\ pc = "idle" /\ Len(log) >= 1
    /\ Cur.op = "write_event" /\ Cur.ret = "ok"
    /\ Cur.events[1].num_fragments >= 1
    /\ Cur.batch_size >= 1 )
  => /\ Len(Cur.commits) = Ceil(Cur.events[1].num_fragments, Cur.batch_size)
     /\ \A c \in 1..Len(Cur.commits) : Len(Cur.commits[c]) >= 1
     /\ Cardinality(KeysOfId(store, Cur.id)) = Cur.events[1].num_fragments

\* C13: an event of 1..255 fragments written by a successful fdb_write_event
\* into a store holding no key of its id, and then read by fdb_read_event with
\* the range returned in two or more non-empty pages (has_more set on every
\* page but the last), comes back as with a single page: success, the
\* original data_length and the original bytes, every fragment of global
\* index g >= 1 at offset payload_length + (g - 1) * OPTIMAL_VALUE_SIZE.
C13_PagedReadRoundTrip ==
  \A j \in 1..(Len(log) - 1) :
    LET w == log[j]
        r == log[j + 1]
    IN  ( /\ w.op = "write_event" /\ w.ret = "ok"
          /\ Len(w.events[1].data) >= 1
          /\ w.events[1].num_fragments <= 255
          /\ KeysOfId(w.pre, w.id) = {}
          /\ r.op = "read_event" /\ r.id = w.id
          /\ r.fault = "none"
          /\ r.ret \in {"ok", "fail", "undefined"}
          /\ r.cut )
        => /\ r.pages >= 2
           /\ r.ret = "ok"
           /\ r.out.data_length = Len(w.events[1].data)
           /\ r.out.data = w.events[1].data

\* The key-value pairs of db in the key range of event id, in key order.
RangeOfId(db, id) ==
  SelectSeq(db, LAMBDA kv : /\ KeyLessEq(fdb_build_event_key(id, 0), kv.key)
                            /\ KeyLess(kv.key, fdb_build_event_key(id + 1, 0)))

\* The first value of a range holds a whole header of at most MAX_HEADER_SIZE
\* bytes.
HoldsHeader(value) ==
  /\ Len(value) >= 1
  /\ read_header(value, 0, 0).header_length <= MAX_HEADER_SIZE
  /\ read_header(value, 0, 0).header_length <= Len(value)

\* C14: fdb_read_event returns failure whenever a stored value after the
\* first in the event's key range is not exactly OPTIMAL_VALUE_SIZE bytes
\* long, or the number of keys in the range differs from the count the header
\* of the first value declares (additional fragments + 1).  The range is one
\* of 1..255 pairs, returned in a single page, its first value holding a
\* header.
C14_CorruptReadFails ==
  \A j \in 1..Len(log) :
    LET r == log[j]
        range == RangeOfId(r.pre, r.id)
    IN  ( /\ r.op = "read_event"
          /\ r.fault = "none"
          /\ r.ret \in {"ok", "fail", "undefined"}
          /\ r.pages = 1 /\ ~r.cut
          /\ Len(range) \in 1..255
          /\ HoldsHeader(range[1].value)
          /\ \/ \E g \in 2..Len(range) : Len(range[g].value) # OPTIMAL_VALUE_SIZE
             \/ Len(range) # read_header(range[1].value, 0, 0).num_fragments + 1 )
        => r.ret = "fail"

\* An fdb_read_event call that took a failure path: it returned -1, or the
\* store refused its range read.
ReadFailure(r) ==
  /\ r.op = "read_event"
  /\ r.ret # "running"
  /\ r.ret = "fail" \/ r.fault = "range"

\* C15: on every failing return of fdb_read_event the reassembly buffer is
\* released exactly when it had been allocated: a buffer malloc'ed on the
\* first page is freed exactly once, a failure before the allocation (an
\* engine error on the first range request) frees nothing; and the caller is
\* left with no buffer.
C15_FailedReadReleasesBuffer ==
  \A j \in 1..Len(log) :
    ReadFailure(log[j]) =>
      /\ log[j].allocs \in {0, 1}
      /\ log[j].frees = log[j].allocs
      /\ log[j].out = NoEvent

\* A call of the model that creates transactions and futures and has returned.
ReturnedCall(c) ==
  /\ c.op \in WriteOps \cup {"read_event"}
  /\ c.ret \in {"ok", "fail"}

\* C20: every transaction and every future a write or read call created is
\* destroyed before the call returns, on the success path and on every
\* failure path.
C20_NoLiveTransactionOrFuture ==
  \A j \in 1..Len(log) :
    ReturnedCall(log[j]) =>
      /\ log[j].transactions = 0
      /\ log[j].futures = 0

\* The store as call j of the log left it (the call has returned).
PostStore(j) == IF j < Len(log) THEN log[j + 1].pre ELSE store

\* C16: writing the same event twice with fdb_write_event leaves the store
\* as the first write left it, and a following fdb_read_event returns what it
\* returns after one write: for an event of 1..255 fragments written into a
\* store holding no key of its id and read in a single page, success with the
\* original data_length and bytes.
C16_WriteEventIdempotent ==
  \A j \in 1..(Len(log) - 1) :
    LET w1 == log[j]
        w2 == log[j + 1]
    IN  ( /\ w1.op = "write_event" /\ w1.ret = "ok"
          /\ w2.op = "write_event" /\ w2.ret = "ok"
          /\ w2.events = w1.events )
        => /\ PostStore(j + 1) = w2.pre
           /\ ( /\ j + 2 <= Len(log)
                /\ log[j + 2].op = "read_event" /\ log[j + 2].id = w1.id
                /\ log[j + 2].fault = "none"
                /\ log[j + 2].ret \in {"ok", "fail", "undefined"}
                /\ log[j + 2].pages = 1 /\ ~log[j + 2].cut
                /\ w1.events[1].num_fragments \in 1..255
                /\ KeysOfId(w1.pre, w1.id) = {} )
              => /\ log[j + 2].ret = "ok"
                 /\ log[j + 2].out.data_length = Len(w1.events[1].data)
                 /\ log[j + 2].out.data = w1.events[1].data

\* C16 witness: an event of three fragments written twice under batch size 1
\* and read back whole.
C16_Witness ==
  /\ Len(log) = 3
  /\ log[1].op = "write_event" /\ log[1].ret = "ok"
  /\ log[2].op = "write_event" /\ log[2].ret = "ok"
  /\ log[2].events = log[1].events
  /\ log[1].events[1].num_fragments = 3
  /\ Len(log[2].commits) = 3
  /\ log[2].pre = log[3].pre /\ Len(log[3].pre) = 3
  /\ log[3].op = "read_event" /\ log[3].ret = "ok"
  /\ log[3].out.data = log[1].events[1].data

\* The number of set operations in the transactions a call has committed.
RECURSIVE SetsCommitted(_, _)
SetsCommitted(commits, n) ==
  IF n = 0 THEN 0 ELSE Len(commits[n]) + SetsCommitted(commits, n - 1)

\* The number of fragments of an array of events.
RECURSIVE TotalFragments(_, _)
TotalFragments(events, n) ==
  IF n = 0 THEN 0 ELSE events[n].num_fragments + TotalFragments(events, n - 1)

\* C17: in fdb_write_event and fdb_write_event_array a failed commit ends the
\* call at once with a failure return: the step on which the commit fails
\* leaves the store and the list of committed transactions as they were and
\* the caller idle with no transaction being filled, and from then on the
\* record of the call (its commits among it) never changes and the store
\* stays as it is until another call is made.
C17_CommitFailureAborts ==
  [][ /\ ( /\ Len(log) >= 1 /\ Len(log') = Len(log)
           /\ Cur.op \in {"write_event", "write_event_array"}
           /\ Cur.fault = "none"
           /\ log'[Len(log)].fault = "commit" )
         => /\ log'[Len(log)].ret = "fail"
            /\ log'[Len(log)].commits = Cur.commits
            /\ store' = store
            /\ pc' = "idle"
            /\ wr' = NoWr
      /\ \A j \in 1..Len(log) :
           ( /\ log[j].op \in {"write_event", "write_event_array"}
             /\ log[j].fault = "commit" )
           => /\ log[j].ret = "fail"
              /\ Len(log') >= Len(log)
              /\ log'[j] = log[j]
              /\ (j = Len(log) => pc = "idle" /\ wr = NoWr)
              /\ (j = Len(log) /\ Len(log') = Len(log) => store' = store)
    ]_vars

\* C17 witness: an fdb_write_event_array call has returned failure after two
\* commits, fragments of its events still unwritten.
C17_Witness ==
  /\ pc = "idle" /\ Len(log) >= 1
  /\ Cur.op = "write_event_array"
  /\ Cur.fault = "commit" /\ Cur.ret = "fail"
  /\ Len(Cur.commits) = 2
  /\ SetsCommitted(Cur.commits, 2) < TotalFragments(Cur.events, Len(Cur.events))
  /\ Len(store) = SetsCommitted(Cur.commits, 2)

\* The global fragment sequence of an array: events in array order, fragments
\* in increasing index; each entry is <<a, i>>, fragment i of events[a].
RECURSIVE GlobalFragments(_, _)
GlobalFragments(events, n) ==
  IF n = 0 THEN <<>>
  ELSE GlobalFragments(events, n - 1)
         \o [i \in 1..events[n].num_fragments |-> <<n, i - 1>>]

\* The keys of the transactions a call committed, in the order set.
RECURSIVE CommittedKeys(_, _)
CommittedKeys(commits, n) ==
  IF n = 0 THEN <<>> ELSE CommittedKeys(commits, n - 1) \o commits[n]

\* A synchronous fdb_write_event or fdb_write_event_array call that failed on
\* a commit.
FailedWrite(c) ==
  /\ c.op \in {"write_event", "write_event_array"}
  /\ c.fault = "commit" /\ c.ret = "fail"

FullWrite(events) ==
  LET global == GlobalFragments(events, Len(events))
  IN  [k \in 1..Len(global) |->
         SetOp(fdb_build_event_key(events[global[k][1]].id, global[k][2]),
               ExpectedValue(events[global[k][1]], global[k][2]))]

\* C19: when a synchronous fdb_write_event or fdb_write_event_array fails on a
\* commit and the same write is then repeated and succeeds, the store holds
\* for each id of the events what one successful write into the store found by
\* the failed call produces, and a following fdb_read_event of such an id (an
\* event of 1..255 fragments, the range returned in one page) returns success
\* with the original data_length and bytes.
C19_RetryAfterFailure ==
  \A j \in 1..(Len(log) - 1) :
    LET f == log[j]
        w == log[j + 1]
    IN  ( /\ FailedWrite(f)
          /\ w.op = f.op /\ w.events = f.events
          /\ w.ret = "ok"
          /\ DistinctIds(f.events) )
        => /\ \A a \in 1..Len(f.events) :
                RangeOfId(PostStore(j + 1), f.events[a].id)
                  = RangeOfId(ApplyTx(f.pre, FullWrite(f.events)), f.events[a].id)
           /\ \A a \in 1..Len(f.events) :
                ( /\ j + 2 <= Len(log)
                  /\ log[j + 2].op = "read_event"
                  /\ log[j + 2].id = f.events[a].id
                  /\ log[j + 2].fault = "none"
                  /\ log[j + 2].ret \in {"ok", "fail", "undefined"}
                  /\ log[j + 2].pages = 1 /\ ~log[j + 2].cut
                  /\ f.events[a].num_fragments \in 1..255 )
                => /\ log[j + 2].ret = "ok"
                   /\ log[j + 2].out.data_length = Len(f.events[a].data)
                   /\ log[j + 2].out.data = f.events[a].data


\* The key-value pairs of db, and those whose key is in [begin, end).
Pairs(db) == {db[j] : j \in 1..Len(db)}
KeysIn(db, begin, end) == {k \in StoreKeys(db) : KeyLessEq(begin, k) /\ KeyLess(k, end)}

\* The key span of event e: from the key of its fragment 0 up to, not
\* including, the key of fragment num_fragments.
SpanOf(db, e) ==
  KeysIn(db, fdb_build_event_key(e.id, 0), fdb_build_event_key(e.id, e.num_fragments))

\* C21: after fdb_clear_event(e) has returned success the store holds no key
\* of e's key span [key(e.id, 0), key(e.id, num_fragments)), and every pair
\* whose key belongs to another event id is in the store as it was before
\* the call.
C21_ClearEventFrame ==
  \A j \in 1..Len(log) :
    LET c == log[j]
        e == c.events[1]
        post == PostStore(j)
    IN  (c.op = "clear_event" /\ c.ret = "ok") =>
          /\ SpanOf(post, e) = {}
          /\ \A kv \in Pairs(c.pre) : kv.key \notin KeysOfId(c.pre, e.id) => kv \in Pairs(post)
          /\ Pairs(post) \subseteq Pairs(c.pre)

\* C21 witness: fdb_clear_event succeeded on an event of which the store held
\* every fragment, next to the fragments of two other events.
C21_Witness ==
  /\ Len(log) >= 2
  /\ Cur.op = "clear_event" /\ Cur.ret = "ok"
  /\ Cardinality(SpanOf(Cur.pre, Cur.events[1])) = Cur.events[1].num_fragments
  /\ Cur.events[1].num_fragments = 3
  /\ Cardinality({id \in 1..3 : KeysOfId(Cur.pre, id) # {}}) = 3
  /\ Len(store) = Len(Cur.pre) - 3

\* The ids of the events of an array.
IdsOf(events) == {events[k].id : k \in 1..Len(events)}

\* C22: after fdb_clear_event_array(events, n) has returned success, for n >= 1
\* and the ids in any order, the store holds no key key(id, j) with
\* j < num_fragments of any event of the array, also when n is larger than
\* CLEAR_BATCH_SIZE, and every pair of an event that is not in the array is
\* in the store as it was before the call.
C22_ClearEventArrayFrame ==
  \A j \in 1..Len(log) :
    LET c == log[j]
        post == PostStore(j)
    IN  (c.op = "clear_event_array" /\ c.ret = "ok" /\ Len(c.events) >= 1) =>
          /\ \A k \in 1..Len(c.events) : SpanOf(post, c.events[k]) = {}
          /\ \A kv \in Pairs(c.pre) :
               (\A id \in IdsOf(c.events) : kv.key \notin KeysOfId(c.pre, id))
                 => kv \in Pairs(post)
          /\ Pairs(post) \subseteq Pairs(c.pre)

\* C22 witness: fdb_clear_event_array succeeded on an array of more events
\* than CLEAR_BATCH_SIZE, in three transactions, and removed the fragments of
\* three stored events.
C22_Witness ==
  /\ Len(log) >= 2
  /\ Cur.op = "clear_event_array" /\ Cur.ret = "ok"
  /\ Len(Cur.events) > CLEAR_BATCH_SIZE
  /\ Len(Cur.commits) = 3
  /\ \A k \in 1..Len(Cur.events) : SpanOf(Cur.pre, Cur.events[k]) # {}
  /\ Cardinality(IdsOf(Cur.events)) = 3
  /\ store = EmptyStore

\* C23: after fdb_clear_database() has returned success a scan of the usable
\* keyspace [0x00, 0xFF) finds no key, whatever was written before, and the
\* call committed one transaction of a single range clear.
C23_ClearDatabaseEmpties ==
  \A j \in 1..Len(log) :
    LET c == log[j]
    IN  (c.op = "clear_database" /\ c.ret = "ok") =>
          /\ KeysIn(PostStore(j), <<0>>, <<255>>) = {}
          /\ Len(c.commits) = 1
          /\ Len(c.commits[1]) = 1

\* C23 witness: fdb_clear_database succeeded on a store that held the
\* fragments of three events, seven pairs or more.
C23_Witness ==
  /\ Len(log) >= 2
  /\ Cur.op = "clear_database" /\ Cur.ret = "ok"
  /\ Cardinality({id \in 1..3 : KeysOfId(Cur.pre, id) # {}}) = 3
  /\ Len(Cur.pre) >= 7
  /\ store = EmptyStore

\* The keys of the fragments from..(to - 1) of event e, in order.
FragmentKeys(e, from, to) ==
  [k \in 1..(IF to > from THEN to - from ELSE 0) |-> fdb_build_event_key(e.id, from + k - 1)]

\* C24: a successful fdb_write_batch(event, &pos) with pos < num_fragments
\* commits one transaction that sets the fragments pos up to
\* min(pos + batch_size, num_fragments) - 1 and moves pos to
\* min(pos + batch_size, num_fragments), so calls repeated from pos = 0 reach
\* num_fragments with call number ceil(num_fragments / batch_size); a failed
\* call leaves pos as it was.
C24_WriteBatchAdvances ==
  \A j \in 1..Len(log) :
    LET c == log[j]
        e == c.events[1]
        sum == c.pos + c.batch_size
        to == IF sum < e.num_fragments THEN sum ELSE e.num_fragments
    IN  c.op = "write_batch" =>
          /\ (c.ret = "ok" /\ c.pos < e.num_fragments) =>
               /\ c.commits = <<FragmentKeys(e, c.pos, to)>>
               /\ c.pos_out = to
               /\ (c.pos = 0 /\ Ceil(e.num_fragments, c.batch_size) = 1)
                    => c.pos_out = e.num_fragments
               /\ \A m \in 2..(Len(log) - j + 1) :
                    ( /\ c.pos = 0
                      /\ \A k \in 1..(m - 1) :
                           /\ log[j + k].op = "write_batch" /\ log[j + k].ret = "ok"
                           /\ log[j + k].events = c.events
                           /\ log[j + k].pos = log[j + k - 1].pos_out
                           /\ log[j + k].pos < e.num_fragments )
                      => (log[j + m - 1].pos_out = e.num_fragments
                            <=> m = Ceil(e.num_fragments, c.batch_size))
          /\ c.ret = "fail" => c.pos_out = c.pos

\* fdb_batch_size after the j-th call.
PostBatchSize(j) == IF j < Len(log) THEN log[j + 1].batch_size ELSE fdb_batch_size

\* C25: fdb_set_batch_size(0) returns failure, leaves fdb_batch_size as it was
\* and does no I/O; fdb_set_batch_size(n) with n > 0 returns success and the
\* calls after it run with n as the limit of a transaction; the batch size in
\* effect is always above zero.
C25_BatchSizePositive ==
  /\ fdb_batch_size > 0
  /\ \A j \in 1..Len(log) :
       LET c == log[j]
       IN  c.op = "set_batch_size" =>
             /\ c.commits = <<>> /\ c.pages = 0 /\ PostStore(j) = c.pre
             /\ c.pos = 0 => (c.ret = "fail" /\ PostBatchSize(j) = c.batch_size)
             /\ c.pos > 0 =>
                  /\ c.ret = "ok"
                  /\ \A k \in (j + 1)..Len(log) :
                       (\A m \in (j + 1)..(k - 1) :
                          ~(log[m].op = "set_batch_size" /\ log[m].ret = "ok"))
                         => /\ log[k].batch_size = c.pos
                            /\ (log[k].op = "write_event" /\ log[k].events[1].num_fragments > 0)
                                 => \A t \in 1..Len(log[k].commits) :
                                      Len(log[k].commits[t]) <= c.pos

\* C25 witness: fdb_set_batch_size(2) succeeded, fdb_set_batch_size(0) was
\* refused, and the fdb_write_event after them committed four fragments in two
\* transactions of two.
C25_Witness ==
  /\ Len(log) = 3
  /\ log[1].op = "set_batch_size" /\ log[1].pos = 2 /\ log[1].ret = "ok"
  /\ log[2].op = "set_batch_size" /\ log[2].pos = 0 /\ log[2].ret = "fail"
  /\ log[3].op = "write_event" /\ log[3].ret = "ok" /\ log[3].batch_size = 2
  /\ Len(log[3].commits) = 2
  /\ Len(log[3].commits[1]) = 2 /\ Len(log[3].commits[2]) = 2
  /\ fdb_batch_size = 2

\* The transactions of the futures 1..n of the running call, in the order
\* their commits were issued.
IssuedTxs(n) == [k \in 1..n |-> net.futures[k].tx]
Resolved == {k \in 1..Len(net.futures) : net.futures[k].status = "committed"}

\* C26: in fdb_write_event and fdb_write_event_array the commits are totally
\* ordered: when the commit of a batch is issued the commits of all batches
\* before it have resolved successfully, so at most one commit is in flight
\* and the store holds the batches committed so far, applied in batch order.
C26_SyncCommitsOrdered ==
  (workload = "sync" /\ Len(log) > 0 /\ Cur.op \in {"write_event", "write_event_array"}) =>
    /\ \A k \in 1..Len(net.futures) :
         \A m \in 1..(k - 1) : net.futures[m].status = "committed"
    /\ Cardinality(Pending(net)) <= 1
    /\ store = ApplyAll(Cur.pre, IssuedTxs(Cardinality(Resolved)), 1)
    /\ Len(Cur.commits) = Cardinality(Resolved)

\* C26 witness: a fdb_write_event_array call returned success after three
\* commits, each of a full batch of two fragments.
C26_Witness ==
  /\ workload = "sync"
  /\ Len(log) > 0
  /\ Cur.op = "write_event_array" /\ Cur.ret = "ok"
  /\ Len(net.futures) = 4
  /\ \A k \in 1..3 : Len(net.futures[k].tx) = 2
  /\ \A k \in 1..4 : net.futures[k].status = "committed"
  /\ Len(store) = 6

\* The commits of the async writer that were issued and whose callback has
\* not run to its end.
Outstanding == {k \in 1..Len(net.futures) : net.futures[k].cb # "done"}

\* A call of fdb_timed_write_event_array_async has returned, with success or
\* with -1.
AsyncReturned ==
  /\ Len(log) > 0
  /\ Cur.op = "write_event_array_async"
  /\ Cur.ret \in {"ok", "fail"}

\* C27: when fdb_timed_write_event_array_async has returned, with success or
\* with an error, no commit it issued is left without its callback having
\* run.
C27_AsyncReturnsAfterCallbacks == AsyncReturned => Outstanding = {}

\* C27 on the success path alone: a call that returned 0 left no commit
\* without its callback.
C27_SuccessAfterCallbacks ==
  (AsyncReturned /\ Cur.ret = "ok") => Outstanding = {}

\* The keys of every fragment of every event of an array.
RECURSIVE ArrayKeys(_, _)
ArrayKeys(events, n) ==
  IF n = 0 THEN {}
  ELSE ArrayKeys(events, n - 1)
         \cup {fdb_build_event_key(events[n].id, f) :
                 f \in 0..(events[n].num_fragments - 1)}

\* The keys set in the transactions as they were committed, of the commits
\* that have completed: their callback has run.
CompletedKeys ==
  UNION {{net.futures[k].tx[j].key : j \in 1..Len(net.futures[k].tx)} :
           k \in {k \in 1..Len(net.futures) : net.futures[k].cb = "done"}}

\* C28: when fdb_timed_write_event_array_async has returned success, every
\* fragment of every event of the array is in a transaction that was
\* committed after the fragment was added and whose commit has completed,
\* whatever the total of fragments and the batch size.
C28_AsyncSuccessCommitsAll ==
  (AsyncReturned /\ Cur.ret = "ok") =>
    ArrayKeys(Cur.events, Len(Cur.events)) \subseteq CompletedKeys

\* C28 for totals that are a multiple of the batch size.
C28_AsyncWholeBatches ==
  (/\ AsyncReturned /\ Cur.ret = "ok"
   /\ total_fragments(Cur.events) % Cur.batch_size = 0) =>
    ArrayKeys(Cur.events, Len(Cur.events)) \subseteq CompletedKeys

\* A call of fdb_timed_write_event_array_async that got its transactions is
\* running or has ended.
AsyncEntered ==
  /\ Len(log) > 0
  /\ Cur.op = "write_event_array_async"
  /\ Cur.fault # "setup"

\* The caller is about to use txs[b], or has used it outside the array.
AsyncAddressesTx ==
  \/ pc \in {"async_commit", "async_set_callback", "async_callback"}
  \/ pc = "async_loop" /\ aw.i < Len(aw.events)
  \/ pc = "undefined"

\* C29: fdb_timed_write_event_array_async pre-allocates ceil(T / B)
\* transactions for T fragments in all and batch size B, every index b it
\* addresses a transaction with is below num_batches, and when it returns
\* success each pre-allocated transaction was committed exactly once.
C29_OneTransactionPerBatch ==
  AsyncEntered =>
    /\ aw.num_batches = Ceil(total_fragments(Cur.events), Cur.batch_size)
    /\ AsyncAddressesTx => aw.b < aw.num_batches
    /\ Cur.ret = "ok" =>
         \A b \in 0..(aw.num_batches - 1) :
           Cardinality({k \in 1..Len(net.futures) : net.futures[k].b = b}) = 1

\* C29 for a total of fragments that is a multiple of the batch size and
\* not zero.
C29_WholeBatches ==
  (/\ AsyncEntered
   /\ total_fragments(Cur.events) > 0
   /\ total_fragments(Cur.events) % Cur.batch_size = 0) =>
    /\ aw.num_batches = Ceil(total_fragments(Cur.events), Cur.batch_size)
    /\ AsyncAddressesTx => aw.b < aw.num_batches
    /\ \A b \in 0..(aw.num_batches - 1) :
         Cardinality({k \in 1..Len(net.futures) : net.futures[k].b = b}) <= 1
    /\ Cur.ret = "ok" =>
         \A b \in 0..(aw.num_batches - 1) :
           Cardinality({k \in 1..Len(net.futures) : net.futures[k].b = b}) = 1

\* The commits whose callback has run to its end.
CallbacksDone == {k \in 1..Len(net.futures) : net.futures[k].cb = "done"}

\* C30: during and after a call of fdb_timed_write_event_array_async the
\* counter txs_processing is the number of batches whose commit has not
\* completed, the pre-allocated transactions less the callbacks that have
\* run: one decrement for each, never below zero, zero only when all ran.
C30_CounterCountsOutstanding ==
  AsyncEntered =>
    aw.txs_processing = aw.num_batches - Cardinality(CallbacksDone)

\* C30 for calls of at most one pre-allocated transaction, where no two
\* callbacks can meet.
C30_SingleBatchCounter ==
  (AsyncEntered /\ aw.num_batches <= 1) =>
    aw.txs_processing = aw.num_batches - Cardinality(CallbacksDone)

\* The committed transactions of a call that hold a set operation, in the
\* order committed.
SetCommits(c) == SelectSeq(c.commits, LAMBDA t : Len(t) > 0)

\* C31: a successful fdb_write_event_array on an array of T >= 1 fragments in
\* all under batch size B >= 1 committed exactly ceil(T / B) transactions that
\* hold set operations, each but the last holding exactly B of them.
C31_FewestTransactions ==
  ( /\ ArrayWritten
    /\ TotalFragments(Cur.events, Len(Cur.events)) >= 1
    /\ Cur.batch_size >= 1 )
  => LET sets == SetCommits(Cur)
     IN  /\ Len(sets) = Ceil(TotalFragments(Cur.events, Len(Cur.events)),
                             Cur.batch_size)
         /\ \A c \in 1..(Len(sets) - 1) : Len(sets[c]) = Cur.batch_size

\* C31 for arrays whose events have one fragment or more each.
C31_FragmentedEvents ==
  ( /\ ArrayWritten
    /\ Len(Cur.events) >= 1
    /\ \A a \in 1..Len(Cur.events) : Cur.events[a].num_fragments >= 1
    /\ Cur.batch_size >= 1 )
  => LET sets == SetCommits(Cur)
     IN  /\ Len(sets) = Ceil(TotalFragments(Cur.events, Len(Cur.events)),
                             Cur.batch_size)
         /\ \A c \in 1..(Len(sets) - 1) : Len(sets[c]) = Cur.batch_size
         /\ Len(sets[Len(sets)]) <= Cur.batch_size
         /\ Len(Cur.commits) \in {Len(sets), Len(sets) + 1}

\* The keys of the fragments of an array in global order: events in array
\* order, then increasing fragment index.
GlobalKeys(events) ==
  LET global == GlobalFragments(events, Len(events))
  IN  [k \in 1..Len(global) |->
         fdb_build_event_key(events[global[k][1]].id, global[k][2])]

\* C32: the set operations of the transactions a successful
\* fdb_write_event_array committed, taken in the order committed, are the
\* fragments of the array in global order, each once: every transaction holds
\* a contiguous segment of that sequence, a batch may run from the tail of an
\* event into the head of the next, and no set operation is left uncommitted.
C32_GlobalOrderOnce ==
  ArrayWritten =>
    CommittedKeys(Cur.commits, Len(Cur.commits)) = GlobalKeys(Cur.events)

\* C32 for arrays whose events have one fragment or more each.
C32_FragmentedEvents ==
  ( /\ ArrayWritten
    /\ \A a \in 1..Len(Cur.events) : Cur.events[a].num_fragments >= 1 )
  => CommittedKeys(Cur.commits, Len(Cur.commits)) = GlobalKeys(Cur.events)

\* The keys of an array in global order when an event of num_fragments = 0
\* is counted as holding the one fragment 0.
RECURSIVE GlobalKeysAtLeastOne(_, _)
GlobalKeysAtLeastOne(events, n) ==
  IF n = 0 THEN <<>>
  ELSE GlobalKeysAtLeastOne(events, n - 1)
         \o [i \in 1..(IF events[n].num_fragments = 0 THEN 1
                       ELSE events[n].num_fragments) |->
               fdb_build_event_key(events[n].id, i - 1)]

\* C32 with every event of no fragment counted as one fragment: the order of
\* the set operations committed.
C32_ZeroLengthAsOneFragment ==
  ArrayWritten =>
    CommittedKeys(Cur.commits, Len(Cur.commits))
      = GlobalKeysAtLeastOne(Cur.events, Len(Cur.events))

\* The first keys of the range clears of an array, one per event, in array
\* order.
ClearKeys(events) ==
  [k \in 1..Len(events) |-> fdb_build_event_key(events[k].id, 0)]

\* C33: every transaction a successful fdb_clear_event_array committed holds
\* at most CLEAR_BATCH_SIZE range clears, the range clear of every event of
\* the array is in exactly one of them, and the commit that follows the loop
\* leaves no clear uncommitted.
C33_ClearBatches ==
  \A j \in 1..Len(log) :
    LET c == log[j]
    IN  (c.op = "clear_event_array" /\ c.ret = "ok") =>
          /\ \A t \in 1..Len(c.commits) : Len(c.commits[t]) <= CLEAR_BATCH_SIZE
          /\ CommittedKeys(c.commits, Len(c.commits)) = ClearKeys(c.events)
          /\ Len(c.commits) >= 1

\* C33 witness: an array of more events than CLEAR_BATCH_SIZE was cleared in
\* three transactions, one of them full, the last one holding the clear the
\* commit after the loop was left with.
C33_Witness ==
  /\ Len(log) >= 1
  /\ Cur.op = "clear_event_array" /\ Cur.ret = "ok"
  /\ Len(Cur.events) = 2 * CLEAR_BATCH_SIZE
  /\ Len(Cur.commits) = 3
  /\ Len(Cur.commits[2]) = CLEAR_BATCH_SIZE
  /\ Len(Cur.commits[3]) = CLEAR_BATCH_SIZE - 1

\* Calls j, j + 1 and j + 2 of the run are a successful fdb_write_event of an
\* event, a successful fdb_write_event of another event of the same id and a
\* fdb_read_event of that id that the store answered in a single page.
WriteWriteRead(j) ==
  /\ j + 2 <= Len(log)
  /\ log[j].op = "write_event" /\ log[j].ret = "ok"
  /\ log[j + 1].op = "write_event" /\ log[j + 1].ret = "ok"
  /\ log[j + 1].id = log[j].id
  /\ log[j + 1].events[1] # log[j].events[1]
  /\ log[j].events[1].num_fragments >= 1
  /\ log[j + 1].events[1].num_fragments >= 1
  /\ log[j + 2].op = "read_event" /\ log[j + 2].id = log[j].id
  /\ log[j + 2].fault = "none"
  /\ log[j + 2].ret \in {"ok", "fail", "undefined"}
  /\ log[j + 2].pages = 1 /\ ~log[j + 2].cut

\* C34: after a successful write of an event of id X with n fragments and a
\* successful write of a different event of id X with m < n fragments,
\* fdb_read_event(X) succeeds and returns the data of the second event.
C34_OverwriteShorter ==
  \A j \in 1..Len(log) :
    ( /\ WriteWriteRead(j)
      /\ log[j + 1].events[1].num_fragments < log[j].events[1].num_fragments )
    => /\ log[j + 2].ret = "ok"
       /\ log[j + 2].out.data_length = Len(log[j + 1].events[1].data)
       /\ log[j + 2].out.data = log[j + 1].events[1].data

\* C34 for a second event of as many fragments as the first or more: the
\* read returns the second event.
C34_OverwriteNotShorter ==
  \A j \in 1..Len(log) :
    ( /\ WriteWriteRead(j)
      /\ log[j + 1].events[1].num_fragments >= log[j].events[1].num_fragments )
    => /\ log[j + 2].ret = "ok"
       /\ log[j + 2].out.data_length = Len(log[j + 1].events[1].data)
       /\ log[j + 2].out.data = log[j + 1].events[1].data

\* Call j of the run stored, for an id the store held no key of, some but
\* not all of the fragments of an event, each under its key with its value,
\* and call j + 1 is a fdb_read_event of that id answered in a single page.
PartialEventRead(j) ==
  /\ j + 1 <= Len(log)
  /\ log[j].op = "set_raw" /\ log[j].ret = "ok"
  /\ KeysOfId(log[j].pre, log[j].id) = {}
  /\ LET e == log[j].events[1]
         stored == PostStore(j)
     IN  /\ stored # EmptyStore
         /\ Len(stored) < e.num_fragments
         /\ \A k \in 1..Len(stored) :
              \E i \in 0..(e.num_fragments - 1) :
                /\ stored[k].key = fdb_build_event_key(e.id, i)
                /\ stored[k].value = ExpectedValue(e, i)
  /\ log[j + 1].op = "read_event" /\ log[j + 1].id = log[j].id
  /\ log[j + 1].fault = "none"
  /\ log[j + 1].ret \in {"ok", "fail", "undefined"}
  /\ log[j + 1].pages = 1 /\ ~log[j + 1].cut

\* C35: fdb_read_event returns success only if every fragment of the event
\* is present: when the store holds some but not all of the fragments of an
\* event, fragment 0 among them or not, fdb_read_event of its id does not
\* return success, whatever the bytes of the event.
C35_SuccessOnlyIfComplete ==
  \A j \in 1..Len(log) : PartialEventRead(j) => log[j + 1].ret # "ok"

\* C35 for the partial events that still have their fragment 0: the read
\* returns failure.
C35_PartialWithFirstFragment ==
  \A j \in 1..Len(log) :
    ( /\ PartialEventRead(j)
      /\ fdb_build_event_key(log[j].id, 0) \in StoreKeys(PostStore(j)) )
    => log[j + 1].ret = "fail"

\* Call j of the run is a fdb_write_event of an event of two fragments or
\* more, into a store holding no key of its id, that failed on a commit after
\* a batch or more was committed; call j + 1 is a fdb_read_event of that id
\* that the store answered.
PrefixRead(j) ==
  /\ j + 1 <= Len(log)
  /\ log[j].op = "write_event" /\ FailedWrite(log[j])
  /\ log[j].events[1].num_fragments >= 2
  /\ KeysOfId(log[j].pre, log[j].id) = {}
  /\ Len(log[j].commits) >= 1
  /\ log[j + 1].op = "read_event" /\ log[j + 1].id = log[j].id
  /\ log[j + 1].fault = "none"
  /\ log[j + 1].ret \in {"ok", "fail", "undefined"}

\* C36: after a fdb_write_event of an event of n >= 2 fragments, into a store
\* holding no key of its id, has failed with a batch or more committed, so
\* that a proper non-empty prefix of the fragments is stored, a following
\* fdb_read_event of the id returns failure.
C36_PrefixReadFails ==
  \A j \in 1..Len(log) : PrefixRead(j) => log[j + 1].ret = "fail"

\* C36 for reads that the store answers in a single page.
C36_PrefixReadFailsInOnePage ==
  \A j \in 1..Len(log) :
    (PrefixRead(j) /\ log[j + 1].pages = 1 /\ ~log[j + 1].cut)
      => log[j + 1].ret = "fail"

\* C36 with no more asked than that the read does not return success.
C36_PrefixReadNeverSucceeds ==
  \A j \in 1..Len(log) : PrefixRead(j) => log[j + 1].ret # "ok"

\* Call j is a fdb_read_event of an id that has no key in the store, and the
\* store answered its range read.
AbsentRead(j) ==
  /\ log[j].op = "read_event"
  /\ KeysOfId(log[j].pre, log[j].id) = {}
  /\ log[j].fault = "none"
  /\ log[j].ret \in {"ok", "fail", "undefined"}

\* C37: fdb_read_event of an id that has no key in the store returns failure,
\* with no buffer allocated or returned.
C37_AbsentReadFails ==
  \A j \in 1..Len(log) :
    AbsentRead(j) => log[j].ret = "fail" /\ log[j].allocs = 0

\* C37 for a store that holds no key below the id's first key either, so that
\* the range read returns no pair: the call allocates no buffer, and it does
\* not return, its behaviour being undefined from the read of out_kv[0].
C37_EmptyRangeRead ==
  \A j \in 1..Len(log) :
    ( /\ AbsentRead(j)
      /\ KeysIn(log[j].pre, fdb_build_event_key(0, 0),
                fdb_build_event_key(log[j].id, 0)) = {} )
      => log[j].ret = "undefined" /\ log[j].allocs = 0

\* Call j is a fdb_timed_write_event_array_async that has been entered and
\* has not ended.
AsyncRunning(j) ==
  /\ j <= Len(log)
  /\ log[j].op = "write_event_array_async"
  /\ log[j].ret = "running"

\* C38: with every issued commit completed and its callback called, every
\* fdb_timed_write_event_array_async that was entered eventually returns.
C38_AsyncEventuallyReturns ==
  \A j \in 1..(MaxCalls + 1) :
    AsyncRunning(j) ~> (j <= Len(log) /\ log[j].ret \in {"ok", "fail"})

\* C38 for the final wait alone: a call that has reached `while (0 !=
\* txs_processing);` eventually leaves it.
C38_FinalWaitEnds == (pc = "async_wait") ~> (pc # "async_wait")

\* C38 for the calls with one pre-allocated transaction: such a call
\* eventually leaves the function, by a return or by behaviour that is
\* undefined (a set on a transaction that is committed or destroyed).
C38_SingleBatchEnds ==
  (pc \in AsyncPcs /\ aw.num_batches = 1) ~> (pc \notin AsyncPcs)

\* Call j is a fdb_write_batch(event, &pos) with pos <= num_fragments, under a
\* batch size of 1 or more, that returned success: its one transaction holds
\* the sets add_event_set_transactions(tx, event, pos, fdb_batch_size) added,
\* and pos has moved by the num_kvp it returned.
BatchWritten(j) ==
  /\ log[j].op = "write_batch" /\ log[j].ret = "ok"
  /\ log[j].pos <= log[j].events[1].num_fragments
  /\ log[j].batch_size >= 1

\* The claim's count for the call j: min(limit, num_fragments - start_pos).
BatchCount(j) ==
  Min({log[j].batch_size, log[j].events[1].num_fragments - log[j].pos})

\* C39: add_event_set_transactions(tx, event, start_pos, limit), with
\* start_pos <= num_fragments and limit >= 1, adds min(limit, num_fragments -
\* start_pos) set operations and returns that count, so that the position of
\* fdb_write_batch moves forward by it and never backwards.  Stated for the
\* events of one fragment or more.
C39_SetTransactionsCount ==
  \A j \in 1..Len(log) :
    (BatchWritten(j) /\ log[j].events[1].num_fragments >= 1) =>
      /\ Len(log[j].commits) = 1
      /\ Len(log[j].commits[1]) = BatchCount(j)
      /\ log[j].pos_out = log[j].pos + BatchCount(j)
      /\ log[j].pos_out >= log[j].pos

\* C39 for the calls, on events of one fragment or more, where start_pos +
\* limit stays below the width of a uint32_t.
C39_CountWithoutWrap ==
  \A j \in 1..Len(log) :
    ( /\ BatchWritten(j)
      /\ log[j].pos + log[j].batch_size < UINT32_MODULUS
      /\ log[j].events[1].num_fragments >= 1 )
      => /\ Len(log[j].commits) = 1
         /\ Len(log[j].commits[1]) = BatchCount(j)
         /\ log[j].pos_out = log[j].pos + BatchCount(j)

\* C39 where the sum wraps (start_pos is 1 or more then): nothing is set, and
\* the position moves back to the wrapped sum.
C39_WrappedSum ==
  \A j \in 1..Len(log) :
    ( /\ BatchWritten(j)
      /\ log[j].pos + log[j].batch_size >= UINT32_MODULUS )
      => /\ log[j].commits = <<<<>>>>
         /\ log[j].pos_out = Add32(log[j].pos, log[j].batch_size)
         /\ log[j].pos_out < log[j].pos

\* A turn of the copy loop of fdb_read_event that stays in the loop: the
\* fragment out_kv[i] was copied and ++i done.
CopyTurn == pc = "read_copy" /\ pc' = "read_copy"

\* C40: the copy loop of fdb_read_event visits the pairs of a page once each,
\* in order, and ends: every turn moves the index i one pair forward, for
\* every page length, pages of more than 255 pairs among them.
C40_CopyLoopAdvances == [][CopyTurn => rd'.i = rd.i + 1]_vars

\* C40 for the pages of 255 pairs or fewer.
C40_CopyLoopAdvancesInShortPages ==
  [][(CopyTurn /\ Len(rd.kv) <= 255) => rd'.i = rd.i + 1]_vars

(***************************************************************************)
(* The codec harness: the calls of test/unit.c with their inputs enumerated *)
(***************************************************************************)
HeaderBoundary == {127, 128, 255, 256, 65535, 65536, 16777215, 16777216}
HeaderCounts == (0..MaxHeaderCount) \cup HeaderBoundary

BigLengths == {255 * OPTIMAL_VALUE_SIZE, 256 * OPTIMAL_VALUE_SIZE,
               256 * OPTIMAL_VALUE_SIZE + 1}
CodecLengths == (0..MaxCodecLength) \cup BigLengths
CodecIds == {123, 456}

CodecInit == Init

\* header_length = build_header(header, n)
BuildHeader ==
  \E n \in HeaderCounts :
    /\ hb = NoHeader /\ ~fe.called /\ ~kc.called
    /\ hb' = [n |-> n, header |-> build_header(n).header,
              header_length |-> build_header(n).header_length]
    /\ hr' = NoRead
    /\ fe' = NoFragmentation
    /\ UNCHANGED kc
    /\ UNCHANGED db_vars

\* uint32_t num_fragments = 0; header_length = read_header(header, &num_fragments)
\* on the header build_header wrote (fdb.c:305 and :340 call it this way)
ReadHeader ==
  /\ hb.n >= 0
  /\ hr = NoRead
  /\ LET r == read_header(hb.header, 0, 0)
     IN  hr' = [num_fragments |-> r.num_fragments, header_length |-> r.header_length,
                copied |-> r.copied]
  /\ UNCHANGED <<hb, fe, kc>>
  /\ UNCHANGED db_vars

\* The header buffers read_header is handed that build_header did not write:
\* uint8_t header[MAX_HEADER_SIZE] with any first byte and any extension
\* bytes, as the first value of a key range may hold.
RawFirstBytes == {0, 127, 129, 130, 131, 132, 133, 255}
RawExtensionBytes == {0, 1, 255}
RawHeaders ==
  {<<b>> \o ext : b \in RawFirstBytes,
                  ext \in [1..(MAX_HEADER_SIZE - 1) -> RawExtensionBytes]}

\* uint32_t num_fragments = 0; header_length = read_header(header, &num_fragments)
\* on a header buffer of RawHeaders; the bytes past the buffer are junk
ReadRawHeader ==
  \E header \in RawHeaders, junk \in JunkBytes :
    /\ hb = NoHeader /\ ~fe.called /\ ~kc.called /\ hr = NoRead
    /\ hb' = [n |-> -1, header |-> header, header_length |-> Len(header)]
    /\ LET r == read_header(header, 0, junk)
       IN  hr' = [num_fragments |-> r.num_fragments, header_length |-> r.header_length,
                  copied |-> r.copied]
    /\ UNCHANGED <<fe, kc>>
    /\ UNCHANGED db_vars

\* fragment_event(&event, &f_event)
FragmentEvent ==
  \E id \in CodecIds, len \in CodecLengths :
    LET event == Event(id, DataSeed, len)
    IN  /\ hb = NoHeader /\ ~fe.called /\ ~kc.called
        /\ fe' = [called |-> TRUE, event |-> event, f_event |-> fragment_event(event)]
        /\ hb' = NoHeader
        /\ hr' = NoRead
        /\ UNCHANGED kc
        /\ UNCHANGED db_vars

\* The ids and fragment indices the keys are built for: around every byte
\* boundary of the two fields, up to the largest value of the model.
KeyIds == {0, 1, 2, 255, 256, 257, 65535, 65536, 16777215, 16777216,
           UINT32_MODULUS - 1}
KeyFragments == {0, 1, 255, 256, 65535, 65536, 16777216, UINT32_MODULUS - 1}

\* fdb_build_event_key(key_a, a, i); fdb_build_event_key(key_b, b, j), as
\* fdb_read_event builds the two ends of its range
BuildEventKeys ==
  \E a \in KeyIds, b \in KeyIds, i \in KeyFragments, j \in KeyFragments :
    /\ hb = NoHeader /\ ~fe.called /\ ~kc.called
    /\ kc' = [called |-> TRUE, a |-> a, i |-> i, b |-> b, j |-> j,
              key_a |-> fdb_build_event_key(a, i),
              key_b |-> fdb_build_event_key(b, j)]
    /\ UNCHANGED <<hb, hr, fe>>
    /\ UNCHANGED db_vars

CodecNext == BuildHeader \/ ReadHeader \/ ReadRawHeader \/ FragmentEvent \/ BuildEventKeys

SpecCodec == CodecInit /\ [][CodecNext]_vars

ViewEnd(f, i) == f.fragments[i + 1] + FragmentLength(f, i)

\* C7: the fragment views partition the event's buffer: view 0 starts at 0
\* with payload_length bytes, view i >= 1 starts at payload_length + (i-1)*F
\* with F bytes, each view starts where the one before ends, every view lies
\* inside the buffer and the last one ends at data_length.
C7_ViewsPartitionBuffer ==
  (fe.called /\ fe.event.data_length >= 1) =>
    LET f == fe.f_event
        n == f.num_fragments
    IN  /\ Len(f.fragments) = n
        /\ n >= 1
        /\ f.fragments[1] = 0
        /\ \A i \in 1..(n - 1) :
             /\ f.fragments[i + 1] = f.payload_length + (i - 1) * OPTIMAL_VALUE_SIZE
             /\ f.fragments[i + 1] = ViewEnd(f, i - 1)
        /\ \A i \in 0..(n - 1) :
             /\ 0 <= f.fragments[i + 1]
             /\ ViewEnd(f, i) <= fe.event.data_length
        /\ ViewEnd(f, n - 1) = fe.event.data_length
        /\ f.data = fe.event.data

\* C7 witness: a buffer of 2F + 2 bytes split into views at 0, 2 and F + 2.
C7_Witness ==
  /\ fe.called
  /\ fe.event.data_length = 2 * OPTIMAL_VALUE_SIZE + 2
  /\ fe.f_event.fragments = <<0, 2, OPTIMAL_VALUE_SIZE + 2>>

\* C8: fragment_event on a zero-length event yields exactly one fragment with
\* payload_length = 0, and a header that encodes 0 additional fragments.
C8_ZeroLengthOneFragment ==
  (fe.called /\ fe.event.data_length = 0) =>
    /\ fe.f_event.num_fragments = 1
    /\ fe.f_event.payload_length = 0
    /\ read_header(fe.f_event.header, 0, 0).num_fragments = 0

\* The counts the header round trip is claimed for.
RoundTripCounts == {0, 1, 127, 128, 255, 256, 65535, 65536, 16777215, 16777216}

\* C9: for every n of RoundTripCounts, read_header on the bytes build_header(n)
\* wrote yields the count n and the header length build_header returned.
C9_HeaderRoundTrip ==
  (hb.n \in RoundTripCounts /\ hr # NoRead) =>
    /\ hr.num_fragments = hb.n
    /\ hr.header_length = hb.header_length

\* The smallest byte_length of {1,2,3} whose bytes hold n; 3 when none does.
ByteLengthFor(n) == IF n < 256 THEN 1 ELSE IF n < 65536 THEN 2 ELSE 3

C11_ReadHeaderRejectsLongExtension ==
  ( /\ hb.n = -1 /\ hr # NoRead
    /\ hb.header[1] >= EXTENDED_HEADER
    /\ hb.header[1] - EXTENDED_HEADER > MAX_HEADER_SIZE - 1 )
  => /\ hr.header_length \notin 1..MAX_HEADER_SIZE
     /\ hr.num_fragments = 0
     /\ hr.copied <= MAX_HEADER_SIZE - 1

\* The number a big-endian field of a key holds: its four low-order bytes
\* (the higher ones of an 8-byte field are 0 for every id of the model).
FieldValue(key, last) ==
  key[last - 3] * 16777216 + key[last - 2] * 65536 + key[last - 1] * 256 + key[last]

PairLess(a, i, b, j) == a < b \/ (a = b /\ i < j)

\* C12: fdb_build_event_key(id, idx) is the 13-byte key 0x00 ++
\* big-endian(id, 8 bytes) ++ big-endian(idx, 4 bytes); the bytewise order of
\* two keys is the order of their pairs (id, idx), first by id and then by
\* idx; distinct pairs give distinct keys; no key begins with 0xFF.
C12_KeyLayoutAndOrder ==
  kc.called =>
    /\ Len(kc.key_a) = 13 /\ Len(kc.key_b) = 13
    /\ \A k \in 1..13 : kc.key_a[k] \in 0..255
    /\ kc.key_a[1] = 0 /\ kc.key_b[1] = 0
    /\ \A k \in 2..5 : kc.key_a[k] = 0
    /\ FieldValue(kc.key_a, 9) = kc.a
    /\ FieldValue(kc.key_a, 13) = kc.i
    /\ FieldValue(kc.key_b, 9) = kc.b
    /\ FieldValue(kc.key_b, 13) = kc.j
    /\ (KeyLess(kc.key_a, kc.key_b) <=> PairLess(kc.a, kc.i, kc.b, kc.j))
    /\ (kc.key_a = kc.key_b <=> (kc.a = kc.b /\ kc.i = kc.j))
    /\ kc.key_a[1] # 255

\* C12 witness: id 255 with fragment 65536 sorts before id 256 with fragment
\* 0: the id decides, though the fragment index of the first key is larger.
C12_Witness ==
  /\ kc.called
  /\ kc.a = 255 /\ kc.i = 65536
  /\ kc.b = 256 /\ kc.j = 0
  /\ KeyLess(kc.key_a, kc.key_b)
  /\ kc.key_a = <<0, 0, 0, 0, 0, 0, 0, 0, 255, 0, 1, 0, 0>>

==========================================================================
